---------------------------- MODULE Spec2Model ----------------------------
(***************************************************************************)
(* The wapbox application layer (gw/wap-appl.c): the event queue and its   *)
(* consumer main_thread, start_fetch, the HTTP caller, the reply pump      *)
(* return_replies_thread, return_reply, the URL map and the push OTA       *)
(* indications, as a state machine.                                        *)
(*                                                                         *)
(* Octet strings are sequences of one-character strings where the code     *)
(* looks inside them (URLs, map patterns) and plain strings where it only  *)
(* compares them whole (header names and values, MIME types, methods).     *)
(* Pointers to events are event ids: the index of the event in `events'.   *)
(***************************************************************************)
EXTENDS Integers, Sequences, FiniteSets, TLC

(***************************************************************************)
(* Bounds of the model.                                                    *)
(***************************************************************************)
\* Events dispatched in one behaviour of Spec.
MaxEvents == 2
\* The positive client SDU size of the inputs, and the lengths of the short
\* and the long bodies (origin-server bodies, compiled bodies, error decks).
SduLimit == 3
ShortBodyLen == 2
LongBodyLen == 5

(***************************************************************************)
(* Program constants.                                                      *)
(***************************************************************************)
HTTP_OK == 200
HTTP_NOT_IMPLEMENTED == 501
HTTP_BAD_GATEWAY == 502
HTTP_STATUS_SUCCESSFUL == 200
\* strlen(HEALTH_DECK)
HealthDeckLen == 156
\* session_id of a connectionless (unit) request
NoSession == -1

\* NULL, for each type of pointer the code tests against it
NullUrl == << "NULL" >>
NullHeaders == << [name |-> "NULL", value |-> "NULL"] >>
NullBody == [data |-> "NULL", back |-> NullUrl, form |-> "NULL", len |-> 0]
NullMachine == << >>
NUL == "\\0"

(***************************************************************************)
(* C strings and octet strings.                                            *)
(***************************************************************************)
ToLowerMap ==
    ("A" :> "a") @@ ("B" :> "b") @@ ("C" :> "c") @@ ("D" :> "d") @@
    ("E" :> "e") @@ ("F" :> "f") @@ ("G" :> "g") @@ ("H" :> "h") @@
    ("I" :> "i") @@ ("J" :> "j") @@ ("K" :> "k") @@ ("L" :> "l") @@
    ("M" :> "m") @@ ("N" :> "n") @@ ("O" :> "o") @@ ("P" :> "p") @@
    ("Q" :> "q") @@ ("R" :> "r") @@ ("S" :> "s") @@ ("T" :> "t") @@
    ("U" :> "u") @@ ("V" :> "v") @@ ("W" :> "w") @@ ("X" :> "x") @@
    ("Y" :> "y") @@ ("Z" :> "z")

tolower(c) == IF c \in DOMAIN ToLowerMap THEN ToLowerMap[c] ELSE c

\* s[i] of a C string, 0-based as in the code; the terminating NUL at strlen(s)
CharAt(s, i) == IF i < Len(s) THEN s[i + 1] ELSE NUL

\* the C string that starts at s + k
StrFrom(s, k) == SubSeq(s, k + 1, Len(s))

RECURSIVE strncasecmp_from(_, _, _, _)
strncasecmp_from(s1, s2, n, i) ==
    IF i >= n THEN 0
    ELSE IF tolower(CharAt(s1, i)) # tolower(CharAt(s2, i)) THEN 1
    ELSE IF CharAt(s1, i) = NUL THEN 0
    ELSE strncasecmp_from(s1, s2, n, i + 1)

\* 0 iff the first n characters (up to a common NUL) agree, ignoring case
strncasecmp(s1, s2, n) == strncasecmp_from(s1, s2, n, 0)

KANNEL_ALIVE == <<"k","a","n","n","e","l",":","a","l","i","v","e">>
DEVICE_HOME_STAR == <<"D","E","V","I","C","E",":","h","o","m","e","*">>

(***************************************************************************)
(* The map-url mechanism.                                                  *)
(***************************************************************************)
WSP_HTTP_MAP_INPREFIX == 1
WSP_HTTP_MAP_OUTPREFIX == 2
WSP_HTTP_MAP_INOUTPREFIX == 3

\* flags & mask, for the two flag bits
FlagsAnd(flags, mask) ==
    (IF (flags % 2 = 1) /\ (mask % 2 = 1) THEN 1 ELSE 0)
    + (IF ((flags \div 2) % 2 = 1) /\ ((mask \div 2) % 2 = 1) THEN 2 ELSE 0)

\* a faulty wsp_http_map_url_do_config that leaves the NUL out of the
\* comparison of a source without `*': C16_WholeUrlOnly must reject it
wsp_http_map_url_do_config_no_nul(map, src, dst) ==
    LET in_star == src[Len(src)] = "*"
        out_star == Len(dst) > 0 /\ dst[Len(dst)] = "*"
    IN  Append(map, [ in |-> src,
                      in_len |-> IF in_star THEN Len(src) - 1 ELSE Len(src),
                      out |-> dst,
                      out_len |-> IF out_star THEN Len(dst) - 1 ELSE Len(dst),
                      flags |-> (IF in_star THEN WSP_HTTP_MAP_INPREFIX ELSE 0)
                                + (IF out_star THEN WSP_HTTP_MAP_OUTPREFIX
                                   ELSE 0) ])

\* wsp_http_map_url_do_config(src, dst): the table after the call
wsp_http_map_url_do_config(map, src, dst) ==
    LET in_len0 == Len(src)
        out_len0 == Len(dst)
        in_star == src[in_len0] = "*"
        out_star == out_len0 > 0 /\ dst[out_len0] = "*"
        new_map == [ in |-> src,
                     in_len |-> IF in_star THEN in_len0 - 1 ELSE in_len0 + 1,
                     out |-> dst,
                     out_len |-> IF out_star THEN out_len0 - 1 ELSE out_len0,
                     flags |-> (IF in_star THEN WSP_HTTP_MAP_INPREFIX ELSE 0)
                               + (IF out_star THEN WSP_HTTP_MAP_OUTPREFIX ELSE 0) ]
    IN  IF in_len0 = 0 THEN map ELSE Append(map, new_map)

\* wsp_http_map_url_config_device_home(to): to[len] is the terminating NUL
wsp_http_map_url_config_device_home(map, to) ==
    LET len == Len(to)
        newto == IF CharAt(to, len) # "*" THEN Append(to, "*") ELSE to
    IN  wsp_http_map_url_do_config(map, DEVICE_HOME_STAR, newto)

\* a faulty wsp_http_map_find that returns the last matching rule:
\* C14_FirstMatchOnly must reject it
wsp_http_map_find_last(map, s) ==
    LET M == { k \in 1..Len(map) :
                 strncasecmp(s, map[k].in, map[k].in_len) = 0 }
    IN  IF M = {} THEN 0 ELSE CHOOSE k \in M : \A j \in M : j <= k

RECURSIVE wsp_http_map_find_from(_, _, _)
wsp_http_map_find_from(map, s, k) ==
    IF k > Len(map) THEN 0
    ELSE IF strncasecmp(s, map[k].in, map[k].in_len) = 0 THEN k
    ELSE wsp_http_map_find_from(map, s, k + 1)

\* index of the first matching rule, 0 when there is none
wsp_http_map_find(map, s) == wsp_http_map_find_from(map, s, 1)

\* a faulty wsp_http_map_url that appends the tail whenever the source had
\* a `*': C15_PrefixReplacement must reject it
wsp_http_map_url_in_tail(map, old) ==
    LET k == wsp_http_map_find(map, old)
    IN  IF k = 0 THEN old
        ELSE IF FlagsAnd(map[k].flags, WSP_HTTP_MAP_INPREFIX) # 0
             THEN SubSeq(map[k].out, 1, map[k].out_len)
                  \o StrFrom(old, map[k].in_len)
             ELSE SubSeq(map[k].out, 1, map[k].out_len)

\* a faulty wsp_http_map_url that returns an empty URL when no rule
\* matches: C17_IdempotentWithoutTail must reject it
wsp_http_map_url_no_match_empty(map, old) ==
    LET k == wsp_http_map_find(map, old)
    IN  IF k = 0 THEN << >>
        ELSE IF FlagsAnd(map[k].flags, WSP_HTTP_MAP_INOUTPREFIX)
                    = WSP_HTTP_MAP_INOUTPREFIX
             THEN SubSeq(map[k].out, 1, map[k].out_len)
                  \o StrFrom(old, map[k].in_len)
             ELSE SubSeq(map[k].out, 1, map[k].out_len)

\* wsp_http_map_url(&os): the rewritten URL
wsp_http_map_url(map, old) ==
    LET k == wsp_http_map_find(map, old)
    IN  IF k = 0 THEN old
        ELSE LET m == map[k]
                 out == SubSeq(m.out, 1, m.out_len)
             IN  IF FlagsAnd(m.flags, WSP_HTTP_MAP_INOUTPREFIX)
                        = WSP_HTTP_MAP_INOUTPREFIX
                 THEN out \o StrFrom(old, m.in_len)
                 ELSE out

\* the record of a URL rewrite, before any URL was rewritten
NoRewrite == [old |-> NullUrl, new |-> NullUrl, again |-> NullUrl, rule |-> 0]

(***************************************************************************)
(* HTTP header lists: sequences of [name, value].                          *)
(***************************************************************************)
Header(n, v) == [name |-> n, value |-> v]

http_create_empty_headers == << >>

http_header_add(headers, n, v) == Append(headers, Header(n, v))

http_header_find_all(headers, n) ==
    SelectSeq(headers, LAMBDA h : h.name = n)

http_header_remove_all(headers, n) ==
    SelectSeq(headers, LAMBDA h : h.name # n)

\* the return value of http_header_remove_all: how many were removed
http_header_removed(headers, n) ==
    Len(headers) - Len(http_header_remove_all(headers, n))

HasHeader(headers, n) == \E i \in 1..Len(headers) : headers[i].name = n

HopByHop == {"Connection", "Keep-Alive", "Proxy-Authenticate",
             "Proxy-Authorization", "TE", "Trailers", "Transfer-Encoding",
             "Upgrade"}

http_remove_hop_headers(headers) ==
    SelectSeq(headers, LAMBDA h : h.name \notin HopByHop)

\* headers of the same name in old are replaced by those of new
http_header_combine(old, new) ==
    SelectSeq(old, LAMBDA h : ~HasHeader(new, h.name)) \o new

http_type_accepted(headers, type) ==
    \E i \in 1..Len(headers) :
        headers[i].name = "Accept" /\ headers[i].value = type

http_charset_accepted(headers, charset) ==
    \E i \in 1..Len(headers) :
        headers[i].name = "Accept-Charset" /\ headers[i].value = charset

\* the type the Content-Type header gives, the HTTP default without one
http_header_get_content_type(headers) ==
    LET ct == http_header_find_all(headers, "Content-Type")
    IN  IF Len(ct) = 0 THEN "application/octet-stream" ELSE ct[1].value

\* the headers describe the new body and type
http_header_mark_transformation(headers, body, type) ==
    LET kept == http_header_remove_all(
                    http_header_remove_all(headers, "Content-Length"),
                    "Content-Type")
        sized == http_header_add(kept, "Content-Length", ToString(body.len))
    IN  IF type # "" THEN http_header_add(sized, "Content-Type", type)
        ELSE sized

http_status_class(status) ==
    IF status < 100 \/ status > 599 THEN 0 ELSE (status \div 100) * 100


(***************************************************************************)
(* State.                                                                  *)
(***************************************************************************)
VARIABLES
    run_status,        \* limbo, running, terminating
    queue,             \* the queue of incoming events (event ids), FIFO
    queue_producers,   \* producers registered on the queue
    fetches,           \* the counter of running fetches
    have_ppg,          \* set by wap_appl_init from its cfg argument
    wsp_smart_errors,  \* extern configuration flag
    device_home,       \* extern configuration: a URL or NullUrl
    wsp_http_map,      \* the map-url table, in insertion order
    referer_url,       \* WSPMachine.referer_url of each session machine
    reply_log,         \* history: what each return_reply was given and made
    mapped,            \* the last URL rewrite: the URL given and the result
    push_asked,        \* history: the PPG's answers about push sessions
    dlr_mutex,         \* dlr_sdb.c: the owner of dlr_mutex, -1 when free
    dlr_thread,        \* dlr_sdb.c: each thread's position in its operation;
                       \* << >> where the store is not in use
    dlr_failed,        \* history: a query of dlr_sdb_messages has returned -1
    caller_pending,    \* HTTP caller: requests started, not yet completed
    caller_results,    \* HTTP caller: completions not yet received, FIFO
    caller_producers,  \* HTTP caller: 0 once shutdown has been signalled
    main_pc,           \* position of main_thread
    replies_pc,        \* position of return_replies_thread
    shutdown_pc,       \* position of the caller of wap_appl_shutdown
    assert_failed,     \* the function whose gw_assert failed, or "none"
    events,            \* every event handed to wap_appl_dispatch, by id
    destroyed,         \* how many times each event has been destroyed
    consumed,          \* ids main_thread took from the queue, in order
    submitted,         \* ids for which http_start_request was called
    wsp_out,           \* events dispatched to the WSP layer, in order
    ppg_out            \* events dispatched to the PPG, in order

vars == << run_status, queue, queue_producers, fetches, have_ppg,
           wsp_smart_errors, device_home, wsp_http_map, referer_url,
           reply_log, mapped, push_asked, dlr_mutex, dlr_thread, dlr_failed,
           caller_pending, caller_results, caller_producers,
           main_pc, replies_pc, shutdown_pc, assert_failed,
           events, destroyed, consumed, submitted, wsp_out, ppg_out >>

(***************************************************************************)
(* dlr_sdb.c: the delivery-report store on LibSDB.  Every operation        *)
(* formats its SQL text, takes dlr_mutex, runs one sdb_query, releases     *)
(* dlr_mutex and looks at the state the query returned.  The operations    *)
(* are called from any thread of the gateway.                              *)
(***************************************************************************)
MaxThreads == 2

DlrThreads == 1..MaxThreads

\* the operations in the handles table, dlr_sdb_shutdown left aside
DlrOps ==
    {"dlr_sdb_add", "dlr_sdb_get", "dlr_sdb_update", "dlr_sdb_remove",
     "dlr_sdb_messages", "dlr_sdb_flush"}

\* what sdb_query returns: -1 on failure, else the number of rows
QueryStates == {-1, 0, 1}

\* a thread outside the store.  locks and unlocks count the calls of
\* mutex_lock and mutex_unlock in the running operation
Idle ==
    [pc |-> "idle", op |-> "none", state |-> 0, locks |-> 0, unlocks |-> 0]

\* panic() ends the process: no thread takes another step
Panicked == \E t \in DlrThreads : dlr_thread[t].pc = "panic"

\* thread t is at position pc of operation op
DlrAt(t, op, pc) ==
    /\ ~Panicked
    /\ dlr_thread[t].op = op
    /\ dlr_thread[t].pc = pc

\* the operation is entered and its SQL text formatted
dlr_enter(t, op) ==
    /\ ~Panicked
    /\ dlr_thread[t].pc = "idle"
    /\ dlr_thread' = [dlr_thread EXCEPT ![t].op = op, ![t].pc = "mutex_lock",
                                        ![t].state = 0, ![t].locks = 0,
                                        ![t].unlocks = 0]
    /\ UNCHANGED << dlr_mutex, dlr_failed >>

\* mutex_lock(dlr_mutex): waits until the mutex is free, then owns it
mutex_lock(t, op) ==
    /\ DlrAt(t, op, "mutex_lock")
    /\ dlr_mutex = -1
    /\ dlr_mutex' = t
    /\ dlr_thread' = [dlr_thread EXCEPT ![t].pc = "sdb_query",
                                        ![t].locks = @ + 1]
    /\ UNCHANGED dlr_failed

\* state = sdb_query(connection, sql, callback, data)
sdb_query(t, op) ==
    /\ DlrAt(t, op, "sdb_query")
    /\ \E state \in QueryStates :
          /\ dlr_thread' = [dlr_thread EXCEPT ![t].pc = "mutex_unlock",
                                              ![t].state = state]
          /\ dlr_failed' =
                 (dlr_failed \/ (op = "dlr_sdb_messages" /\ state = -1))
    /\ UNCHANGED dlr_mutex

\* mutex_unlock(dlr_mutex) at position pc, going on at position next.  The
\* owner releases the mutex.  Unlocking a mutex the caller does not own is
\* undefined for a pthread mutex: it is released whoever owns it, or the
\* unlock fails and mutex_unlock panics
mutex_unlock(t, op, pc, next) ==
    /\ DlrAt(t, op, pc)
    /\ UNCHANGED dlr_failed
    /\ \/ /\ dlr_mutex' = -1
          /\ dlr_thread' = [dlr_thread EXCEPT ![t].pc = next,
                                              ![t].unlocks = @ + 1]
       \/ /\ dlr_mutex # t
          /\ dlr_mutex' = dlr_mutex
          /\ dlr_thread' = [dlr_thread EXCEPT ![t].pc = "panic",
                                              ![t].unlocks = @ + 1]

\* the operation logs what the state calls for and returns
dlr_return(t, op) ==
    /\ DlrAt(t, op, "return")
    /\ dlr_thread' = [dlr_thread EXCEPT ![t].pc = "idle", ![t].op = "none",
                                        ![t].state = 0, ![t].locks = 0,
                                        ![t].unlocks = 0]
    /\ UNCHANGED << dlr_mutex, dlr_failed >>

\* an operation that locks, queries, unlocks and then tests the state
LockedQuery(t, op) ==
    \/ dlr_enter(t, op)
    \/ mutex_lock(t, op)
    \/ sdb_query(t, op)
    \/ mutex_unlock(t, op, "mutex_unlock", "return")
    \/ dlr_return(t, op)

dlr_sdb_add(t) == LockedQuery(t, "dlr_sdb_add")

dlr_sdb_get(t) == LockedQuery(t, "dlr_sdb_get")

dlr_sdb_update(t) == LockedQuery(t, "dlr_sdb_update")

dlr_sdb_remove(t) == LockedQuery(t, "dlr_sdb_remove")

dlr_sdb_flush(t) == LockedQuery(t, "dlr_sdb_flush")

\* dlr_sdb_messages unlocks after the query and, when the state is -1,
\* once more before it returns -1
dlr_sdb_messages(t) ==
    \/ dlr_enter(t, "dlr_sdb_messages")
    \/ mutex_lock(t, "dlr_sdb_messages")
    \/ sdb_query(t, "dlr_sdb_messages")
    \/ /\ dlr_thread[t].state # -1
       /\ mutex_unlock(t, "dlr_sdb_messages", "mutex_unlock", "return")
    \/ /\ dlr_thread[t].state = -1
       /\ mutex_unlock(t, "dlr_sdb_messages", "mutex_unlock", "state_failed")
    \/ mutex_unlock(t, "dlr_sdb_messages", "state_failed", "return")
    \/ dlr_return(t, "dlr_sdb_messages")

(***************************************************************************)
(* Content and its conversion.                                             *)
(***************************************************************************)
\* An octet string holding a body: what it holds, the URL an error deck
\* links back to, its form (textual or compiled) and its length.
Body(data, back, form, len) ==
    [data |-> data, back |-> back, form |-> form, len |-> len]

EmptyBody == Body("", NullUrl, "text", 0)
HEALTH_DECK == Body("HEALTH_DECK", NullUrl, "text", HealthDeckLen)

octstr_len(os) == os.len

\* error_requesting_back(url, referer) and error_requesting(url) of
\* wap-error.h: a WML deck of env.deck_len octets
error_requesting_back(url, back, env) ==
    Body("error_requesting_back", back, "text", env.deck_len)
error_requesting(url, env) ==
    Body("error_requesting", NullUrl, "text", env.deck_len)

\* wml_compile: env.wml is the length of the binary, -1 when it fails
convert_wml_to_wmlc(content, env) ==
    IF env.wml >= 0 /\ content.body # NullBody
    THEN Body(content.body.data, content.body.back, "wmlc", env.wml)
    ELSE NullBody

\* ws_compile_data: env.ws is the length of the binary, -1 when it fails
convert_wmlscript_to_wmlscriptc(content, env) ==
    IF env.ws >= 0 /\ content.body # NullBody
    THEN Body(content.body.data, content.body.back, "wmlscriptc", env.ws)
    ELSE NullBody

converters ==
    << [type |-> "text/vnd.wap.wml",
        result_type |-> "application/vnd.wap.wmlc",
        convert |-> "convert_wml_to_wmlc"],
       [type |-> "text/vnd.wap.wmlscript",
        result_type |-> "application/vnd.wap.wmlscriptc",
        convert |-> "convert_wmlscript_to_wmlscriptc"] >>

NUM_CONVERTERS == Len(converters)

CallConverter(i, content, env) ==
    IF converters[i].convert = "convert_wml_to_wmlc"
    THEN convert_wml_to_wmlc(content, env)
    ELSE convert_wmlscript_to_wmlscriptc(content, env)

RECURSIVE convert_content_from(_, _, _, _)
convert_content_from(i, failed, content, env) ==
    IF i > NUM_CONVERTERS
    THEN [ret |-> IF failed THEN -1 ELSE 0, content |-> content]
    ELSE IF content.type = converters[i].type
         THEN LET new_body == CallConverter(i, content, env)
              IN  IF new_body # NullBody
                  THEN [ret |-> 1,
                        content |-> [content EXCEPT
                                       !.body = new_body,
                                       !.type = converters[i].result_type]]
                  ELSE convert_content_from(i + 1, TRUE, content, env)
         ELSE convert_content_from(i + 1, failed, content, env)

\* convert_content(&content): the return value and the content afterwards
\* a faulty convert_content that reports a failed compilation as no
\* conversion: C28_ConvertContent must reject it
convert_content_no_failure(content, env) ==
    [ret |-> IF convert_content_from(1, FALSE, content, env).ret = 1
             THEN 1 ELSE 0,
     content |-> convert_content_from(1, FALSE, content, env).content]

convert_content(content, env) == convert_content_from(1, FALSE, content, env)

\* for the history: whether the compiler for the type of content makes a
\* binary of it; "none" for a type that has no compiler
Compiles(content, env) ==
    IF content.type = "text/vnd.wap.wml"
    THEN IF convert_wml_to_wmlc(content, env) # NullBody
         THEN "yes" ELSE "no"
    ELSE IF content.type = "text/vnd.wap.wmlscript"
         THEN IF convert_wmlscript_to_wmlscriptc(content, env) # NullBody
              THEN "yes" ELSE "no"
         ELSE "none"

\* a call of convert_content: what it returned, the content after it and,
\* for the history, the content as it was given and what its compiler does
Conversion(content, env) ==
    [ret |-> convert_content(content, env).ret,
     content |-> convert_content(content, env).content,
     source |-> content,
     compiles |-> Compiles(content, env)]

(***************************************************************************)
(* Header additions of start_fetch and return_reply.                       *)
(***************************************************************************)
GW_VERSION == "Kannel/VERSION"
VIA_VALUE == "WAP/1.1 host (Kannel/VERSION)"
\* the charsets the WML compiler reports
wml_charsets == << "UTF-8", "ISO-8859-1" >>

add_kannel_version(headers) ==
    http_header_add(headers, "X-WAP-Gateway", GW_VERSION)

RECURSIVE add_charset_headers_from(_, _)
add_charset_headers_from(headers, i) ==
    IF i > Len(wml_charsets) THEN headers
    ELSE add_charset_headers_from(
             IF ~http_charset_accepted(headers, wml_charsets[i])
             THEN http_header_add(headers, "Accept-Charset", wml_charsets[i])
             ELSE headers,
             i + 1)

add_charset_headers(headers) == add_charset_headers_from(headers, 1)

RECURSIVE add_accept_headers_from(_, _)
add_accept_headers_from(headers, i) ==
    IF i > NUM_CONVERTERS THEN headers
    ELSE add_accept_headers_from(
             IF http_type_accepted(headers, converters[i].result_type)
                /\ ~http_type_accepted(headers, converters[i].type)
             THEN http_header_add(headers, "Accept", converters[i].type)
             ELSE headers,
             i + 1)

add_accept_headers(headers) == add_accept_headers_from(headers, 1)

add_network_info(headers, addr_tuple) ==
    IF addr_tuple.remote # ""
    THEN http_header_add(headers, "X_Network_Info", addr_tuple.remote)
    ELSE headers

add_session_id(headers, session_id) ==
    IF session_id # NoSession
    THEN http_header_add(headers, "X-WAP-Session-ID", ToString(session_id))
    ELSE headers

add_client_sdu_size(headers, sdu_size) ==
    IF sdu_size > 0
    THEN http_header_add(headers, "X-WAP-Client-SDU-Size", ToString(sdu_size))
    ELSE headers

add_via(headers) == http_header_add(headers, "Via", VIA_VALUE)

\* date_format_http(time(NULL)) gives NULL when the time cannot be formatted
add_x_wap_tod(headers, env) ==
    IF ~env.date_ok THEN headers
    ELSE http_header_add(headers, "X-WAP.TOD", "http-date")

\* a faulty add_referer_url that adds an empty referer as well:
\* C26_RefererCarried must reject it
add_referer_url_unchecked(headers, url) ==
    IF url # NullUrl THEN http_header_add(headers, "Referer", url)
    ELSE headers

add_referer_url(headers, url) ==
    IF url # NullUrl /\ Len(url) > 0
    THEN http_header_add(headers, "Referer", url)
    ELSE headers

\* find_session_machine_by_id: the machine (its id) or NULL
find_session_machine_by_id(session_id) ==
    IF session_id \in DOMAIN referer_url THEN << session_id >>
    ELSE NullMachine

get_referer_url(sm) == IF sm # NullMachine THEN referer_url[sm[1]] ELSE NullUrl

\* http_header_pack is a stub in gwlib: the list is left as it is
http_header_pack(headers) == headers


(***************************************************************************)
(* return_reply.                                                           *)
(***************************************************************************)
Content(body, type, charset, url) ==
    [body |-> body, type |-> type, charset |-> charset, url |-> url]

\* return_session_reply: the S_MethodResult_Req handed to the WSP layer
return_session_reply(server_transaction_id, status, headers, body, session_id) ==
    [type |-> "S_MethodResult_Req",
     server_transaction_id |-> server_transaction_id,
     status |-> status,
     response_headers |-> headers,
     response_body |-> body,
     session_id |-> session_id]

\* return_unit_reply: the S_Unit_MethodResult_Req handed to the WSP layer
return_unit_reply(tuple, transaction_id, status, headers, body) ==
    [type |-> "S_Unit_MethodResult_Req",
     addr_tuple |-> tuple,
     transaction_id |-> transaction_id,
     status |-> status,
     response_headers |-> headers,
     response_body |-> body]

\* a faulty return_reply that answers 502 when the compilation failed:
\* C29_FailedCompilationPassed must reject it
Converted_failure_502(status, c, headers, set_referer) ==
    [status |-> IF c.ret < 0 THEN HTTP_BAD_GATEWAY ELSE status,
     content |-> c.content,
     headers |-> IF c.ret = 1
                 THEN http_header_mark_transformation(
                          headers, c.content.body, c.content.type)
                 ELSE headers,
     converted |-> c.ret,
     conversion |-> [source |-> c.source, result |-> c.content,
                     compiles |-> c.compiles],
     set_referer |-> set_referer]

\* the reply after convert_content returned c: a converted body is marked
\* on the headers
Converted(status, c, headers, set_referer) ==
    [status |-> status,
     content |-> c.content,
     headers |-> IF c.ret = 1
                 THEN http_header_mark_transformation(
                          headers, c.content.body, c.content.type)
                 ELSE headers,
     converted |-> c.ret,
     conversion |-> [source |-> c.source, result |-> c.content,
                     compiles |-> c.compiles],
     set_referer |-> set_referer]

\* a faulty return_reply that prefers device_home to the referer:
\* C27_SmartErrorDeck must reject it
SmartErrorDeck_home_first(ref, url, env) ==
    IF device_home # NullUrl
    THEN error_requesting_back(url, device_home, env)
    ELSE IF ref # NullUrl THEN error_requesting_back(url, ref, env)
         ELSE error_requesting(url, env)

\* the deck of a smart error: back to the referer, else to device_home
SmartErrorDeck(ref, url, env) ==
    IF ref # NullUrl THEN error_requesting_back(url, ref, env)
    ELSE IF device_home # NullUrl
         THEN error_requesting_back(url, device_home, env)
         ELSE error_requesting(url, env)

\* status < 0 with smart errors: a WML error deck with status 200
ReplySmartError(content_body, headers, session_id, url, env) ==
    Converted(HTTP_OK,
              Conversion(
                  Content(SmartErrorDeck(
                              get_referer_url(
                                  find_session_machine_by_id(session_id)),
                              url, env),
                          "text/vnd.wap.wml", "", url),
                  env),
              IF headers = NullHeaders THEN http_create_empty_headers
              ELSE headers,
              FALSE)

\* status < 0 without smart errors: 502 and an empty text/plain body
ReplyBadGateway(content_body, headers, url) ==
    [status |-> HTTP_BAD_GATEWAY,
     content |-> Content(EmptyBody, "text/plain", "", url),
     headers |-> headers,
     converted |-> 0,
     conversion |-> << >>,
     set_referer |-> FALSE]

\* a faulty return_reply that stores the referer whatever convert_content
\* returned: C25_RefererSetIff must reject it
SetsReferer_any_content(converted, session_id) ==
    session_id # NoSession
    /\ find_session_machine_by_id(session_id) # NullMachine

\* whether return_reply stores url as the referer of the session
SetsReferer(converted, session_id) ==
    converted = 1 /\ session_id # NoSession
    /\ find_session_machine_by_id(session_id) # NullMachine

\* the reply after convert_content returned c for fetched content
ConvertedFetch(status, c, headers, session_id) ==
    Converted(status, c, headers, SetsReferer(c.ret, session_id))

\* status >= 0: the content the origin server (or start_fetch) gave
ReplyFetched(status, content_body, headers, session_id, url, env) ==
    ConvertedFetch(status,
                   Conversion(
                       Content(content_body,
                               http_header_get_content_type(headers),
                               "", url),
                       env),
                   headers, session_id)

\* the arm of return_reply that the status selects
ReplyArm(status, content_body, headers, session_id, url, env) ==
    IF status < 0
    THEN IF wsp_smart_errors
         THEN ReplySmartError(content_body, headers, session_id, url, env)
         ELSE ReplyBadGateway(content_body, headers, url)
    ELSE ReplyFetched(status, content_body, headers, session_id, url, env)

\* a faulty return_reply that leaves the server's X-WAP.TOD in place:
\* C9_TodOnlyIfRequested must reject it
ReplyHeaders_keep_tod(headers, x_wap_tod, env) ==
    IF x_wap_tod # 0
    THEN add_x_wap_tod(
             http_remove_hop_headers(
                 IF headers = NullHeaders THEN http_create_empty_headers
                 ELSE headers),
             env)
    ELSE http_remove_hop_headers(
             IF headers = NullHeaders THEN http_create_empty_headers
             ELSE headers)

\* hop-by-hop headers and any X-WAP.TOD go; one X-WAP.TOD comes back iff
\* the request had one
ReplyHeaders(headers, x_wap_tod, env) ==
    IF x_wap_tod # 0
    THEN add_x_wap_tod(
             http_header_remove_all(
                 http_remove_hop_headers(
                     IF headers = NullHeaders THEN http_create_empty_headers
                     ELSE headers),
                 "X-WAP.TOD"),
             env)
    ELSE http_header_remove_all(
             http_remove_hop_headers(
                 IF headers = NullHeaders THEN http_create_empty_headers
                 ELSE headers),
             "X-WAP.TOD")

\* the headers exist and are tidied, a NULL body becomes an empty one
Tidied(r, x_wap_tod, env) ==
    [r EXCEPT !.headers = ReplyHeaders(@, x_wap_tod, env),
              !.content.body = IF @ = NullBody THEN EmptyBody ELSE @]

\* a faulty return_reply that applies the filter to every status:
\* C30_AcceptFilter must reject it
TypeRefused_any_status(status, request_headers, type) ==
    ~http_type_accepted(request_headers, type)

\* an error whose content type the client does not accept
TypeRefused(status, request_headers, type) ==
    http_status_class(status) # HTTP_STATUS_SUCCESSFUL
    /\ ~http_type_accepted(request_headers, type)

\* such an error is sent as an empty text/plain body
AcceptFiltered(r, request_headers) ==
    IF TypeRefused(r.status, request_headers, r.content.type)
    THEN [r EXCEPT !.content.body = EmptyBody,
                   !.content.type = "text/plain",
                   !.headers = http_header_mark_transformation(
                                   @, EmptyBody, "text/plain")]
    ELSE r

\* a faulty return_reply that never finds a response too large:
\* C10_BodyWithinSdu must reject it
TooLarge_never(body, sdu_size) == FALSE

\* the response is too large to be sent to the client
TooLarge(body, sdu_size) == octstr_len(body) > sdu_size /\ sdu_size > 0

\* a faulty return_reply that answers 502 for every response that was too
\* large: C11_TooLargeReply must reject it
TooLargeStatus_always(status) == HTTP_BAD_GATEWAY

\* the status sent with a response that was too large
TooLargeStatus(status) ==
    IF http_status_class(status) = HTTP_STATUS_SUCCESSFUL
    THEN HTTP_BAD_GATEWAY ELSE status

\* a response that is too large is suppressed
SduEnforced(r, sdu_size) ==
    IF TooLarge(r.content.body, sdu_size)
    THEN [r EXCEPT !.status = TooLargeStatus(@),
                   !.content.body = EmptyBody,
                   !.headers = http_header_mark_transformation(
                                   @, EmptyBody, r.content.type)]
    ELSE r

\* the event dispatched to WSP for the finished reply r
ReplyEvent(r, orig_event, session_id) ==
    [event |-> IF orig_event.type = "S_MethodInvoke_Ind"
               THEN return_session_reply(
                        orig_event.server_transaction_id, r.status,
                        r.headers, r.content.body, session_id)
               ELSE return_unit_reply(
                        orig_event.addr_tuple, orig_event.transaction_id,
                        r.status, r.headers, r.content.body),
     set_referer |-> r.set_referer,
     content_type |-> r.content.type]

\* history of one return_reply: the status it was given, what
\* convert_content returned and the record of that call (where it was not
\* called: 0 and no record), the URL, the
\* status, body length and content type it had reached before the SDU test,
\* and the content type at the end
ReplyLogged(given, before, reply) ==
    [event |-> reply.event,
     set_referer |-> reply.set_referer,
     content_type |-> reply.content_type,
     given |-> given,
     converted |-> before.converted,
     conversion |-> before.conversion,
     url |-> before.content.url,
     before |-> [status |-> before.status,
                 len |-> octstr_len(before.content.body),
                 type |-> before.content.type]]

\* the SDU test and the dispatch, for the reply as it stands before them
ReplySent(given, before, sdu_size, orig_event, session_id) ==
    ReplyLogged(given, before,
                ReplyEvent(SduEnforced(before, sdu_size), orig_event,
                           session_id))

\* return_reply: the event dispatched to WSP, whether the session's referer
\* becomes url, and the content type at the end
return_reply(status, content_body, headers, sdu_size, orig_event, session_id, url, x_wap_tod, request_headers, env) ==
    ReplySent(status,
              AcceptFiltered(
                  Tidied(ReplyArm(status, content_body, headers, session_id,
                                  url, env),
                         x_wap_tod, env),
                  request_headers),
              sdu_size, orig_event, session_id)

(***************************************************************************)
(* start_fetch.                                                            *)
(***************************************************************************)
\* the fields start_fetch reads from either kind of invoke event
FetchArgs(event) ==
    IF event.type = "S_MethodInvoke_Ind"
    THEN [session_headers |-> event.session_headers,
          request_headers |-> event.request_headers,
          url |-> event.request_uri,
          addr_tuple |-> event.addr_tuple,
          session_id |-> event.session_id,
          client_SDU_size |-> event.client_SDU_size,
          request_body |-> event.request_body,
          method |-> event.method]
    ELSE [session_headers |-> NullHeaders,
          request_headers |-> event.request_headers,
          url |-> event.request_uri,
          addr_tuple |-> event.addr_tuple,
          session_id |-> NoSession,
          client_SDU_size |-> 0,
          request_body |-> event.request_body,
          method |-> event.method]

\* b combined into a, when b is a list
CombineIfAny(a, b) == IF b # NullHeaders THEN http_header_combine(a, b) ELSE a

\* session headers combined with request headers, hop-by-hop headers removed
CombinedHeaders(a) ==
    http_remove_hop_headers(
        CombineIfAny(CombineIfAny(<< >>, a.session_headers),
                     a.request_headers))

\* x_wap_tod: the number of X-WAP.TOD headers removed from the request
RequestTod(a) == http_header_removed(CombinedHeaders(a), "X-WAP.TOD")

\* the stored referer of the session, added when there is one
AddReferer(h, ref) == IF ref # NullUrl THEN add_referer_url(h, ref) ELSE h

\* the referer that start_fetch adds for a session request
FetchReferer(h, session_id) ==
    IF session_id # NoSession
    THEN AddReferer(h, get_referer_url(find_session_machine_by_id(session_id)))
    ELSE h

\* actual_headers: the headers of the outbound request
ActualHeaders(a) ==
    http_header_pack(
     add_session_id(
      add_kannel_version(
       FetchReferer(
        add_via(
         add_client_sdu_size(
          add_network_info(
           add_charset_headers(
            add_accept_headers(
             http_header_remove_all(CombinedHeaders(a), "X-WAP.TOD"))),
           a.addr_tuple),
          a.client_SDU_size)),
        a.session_id)),
      a.session_id))

\* a faulty start_fetch that does not take HEAD for an HTTP method:
\* C23_OnePathPerFetch must reject it
FetchPath_no_head(method, url) ==
    IF method = "GET" /\ url = KANNEL_ALIVE THEN "health"
    ELSE IF method = "GET" \/ method = "POST" THEN "http"
    ELSE "not_implemented"

\* a faulty start_fetch that hands every method to the HTTP caller:
\* C12_UnitNotImplemented must reject it
FetchPath_any_method(method, url) ==
    IF method = "GET" /\ url = KANNEL_ALIVE THEN "health" ELSE "http"

\* a faulty start_fetch that does not know the health URL:
\* C7_HealthReplyCompiled must reject it
FetchPath_no_health(method, url) ==
    IF method \in {"GET", "POST", "HEAD"} THEN "http" ELSE "not_implemented"

\* which of its three ways start_fetch takes
FetchPath(method, url) ==
    IF method = "GET" /\ url = KANNEL_ALIVE THEN "health"
    ELSE IF method = "GET" \/ method = "POST" \/ method = "HEAD" THEN "http"
    ELSE "not_implemented"

\* the body handed to http_start_request
FetchRequestBody(method, request_body) ==
    IF request_body # NullBody /\ (method = "GET" \/ method = "HEAD")
    THEN NullBody ELSE request_body

\* struct request_data, with the method and body of the HTTP request
RequestData(id, a, url, x_wap_tod, actual_headers) ==
    [client_SDU_size |-> a.client_SDU_size,
     event |-> id,
     session_id |-> a.session_id,
     url |-> url,
     x_wap_tod |-> x_wap_tod,
     request_headers |-> actual_headers,
     method |-> a.method,
     body |-> FetchRequestBody(a.method, a.request_body)]

counter_increase(c) == c + 1
\* a faulty counter_decrease that leaves the counter alone:
\* C5_CounterIsInFlight must reject it
counter_decrease_skipped(c) == c

counter_decrease(c) == c - 1

\* an event is destroyed once more
wap_event_destroy(d, id) == [d EXCEPT ![id] = @ + 1]

\* a faulty return_reply that dispatches its event twice: C1_AtMostOneResult
\* must reject it
Returned_twice(r, url, session_id, count, out) ==
    /\ wsp_out' = Append(Append(out, r.event), r.event)
    /\ reply_log' = reply_log
    /\ mapped' = mapped
    /\ UNCHANGED << push_asked, dlr_mutex, dlr_thread, dlr_failed >>
    /\ referer_url' = IF r.set_referer
                      THEN [referer_url EXCEPT ![session_id] = url]
                      ELSE referer_url
    /\ fetches' = count - 1

\* the state after return_reply has dispatched r and released the fetch
Returned(r, url, session_id, count, out) ==
    /\ wsp_out' = Append(out, r.event)
    /\ reply_log' = Append(reply_log,
                           [at |-> Len(out) + 1, given |-> r.given,
                            converted |-> r.converted, url |-> r.url,
                            conversion |-> r.conversion,
                            session_id |-> session_id,
                            before |-> r.before,
                            content_type |-> r.content_type])
    /\ mapped' = mapped
    /\ UNCHANGED << push_asked, dlr_mutex, dlr_thread, dlr_failed >>
    /\ referer_url' = IF r.set_referer
                      THEN [referer_url EXCEPT ![session_id] = url]
                      ELSE referer_url
    /\ fetches' = counter_decrease(count)

\* a reply made inside start_fetch: return_reply, then the event is
\* destroyed
FetchReplied(id, r, url, session_id, out) ==
    /\ Returned(r, url, session_id, counter_increase(fetches), out)
    /\ destroyed' = wap_event_destroy(destroyed, id)
    /\ UNCHANGED << caller_pending, submitted >>

\* start_fetch once the URL is mapped and the headers are assembled
FetchDispatch(id, event, a, url, x_wap_tod, actual_headers, path, Envs, out) ==
    IF path = "health"
    THEN \E env \in Envs :
           FetchReplied(id,
               return_reply(HTTP_OK, HEALTH_DECK,
                   http_header_add(<< >>, "Content-Type", "text/vnd.wap.wml"),
                   a.client_SDU_size, event, a.session_id, url, x_wap_tod,
                   actual_headers, env),
               url, a.session_id, out)
    ELSE IF path = "http"
    THEN /\ fetches' = counter_increase(fetches)
         /\ caller_pending' = caller_pending
                \cup {RequestData(id, a, url, x_wap_tod, actual_headers)}
         /\ submitted' = submitted \cup {id}
         /\ wsp_out' = out
         /\ UNCHANGED << referer_url, reply_log, mapped, push_asked, dlr_mutex, dlr_thread, dlr_failed, destroyed >>
    ELSE \E env \in Envs :
           FetchReplied(id,
               return_reply(HTTP_NOT_IMPLEMENTED, EmptyBody,
                   http_create_empty_headers,
                   a.client_SDU_size, event, a.session_id, url, x_wap_tod,
                   actual_headers, env),
               url, a.session_id, out)

\* start_fetch once the fields of the event are read
FetchMapped(id, event, a, url, Envs, out) ==
    FetchDispatch(id, event, a, url, RequestTod(a), ActualHeaders(a),
                  FetchPath(a.method, url), Envs, out)

FetchEvent(id, event, a, Envs, out) ==
    FetchMapped(id, event, a, wsp_http_map_url(wsp_http_map, a.url), Envs,
                out)

\* out: what has been dispatched to WSP when start_fetch is entered
start_fetch(id, Envs, out) ==
    FetchEvent(id, events[id], FetchArgs(events[id]), Envs, out)

(***************************************************************************)
(* The push OTA indications, responses and confirmations.                  *)
(***************************************************************************)
negotiate_capabilities(req_caps) == << >>

\* split_header_list: the headers named name, and the rest
split_header_list(headers, name) ==
    [found |-> http_header_find_all(headers, name),
     rest |-> http_header_remove_all(headers, name)]

\* wsp_bearer_indication_to_cstr: the registered name of a bearer byte
BearerNames == ("0" :> "IPv4") @@ ("1" :> "IPv6") @@ ("2" :> "GSM USSD")

wsp_bearer_indication_to_cstr(v) ==
    IF v \in DOMAIN BearerNames THEN BearerNames[v] ELSE "NULL"

\* a faulty check_application_headers that assumes no default application:
\* C19_PushConnectionIndicated must reject it
check_application_headers_no_default(headers) ==
    [returns |-> TRUE, application_headers |-> << >>, headers |-> headers]

\* check_application_headers: the application headers and the headers left;
\* with Accept-Application headers present the loop over them takes no
\* header off the list and indexes past its end, so it does not return
check_application_headers(headers) ==
    IF headers = NullHeaders
    THEN [returns |-> TRUE,
          application_headers |->
              http_header_add(<< >>, "Accept-Application", "wml ua"),
          headers |-> headers]
    ELSE LET sp == split_header_list(headers, "Accept-Application")
         IN  IF Len(sp.found) = 0
             THEN [returns |-> TRUE,
                   application_headers |->
                       http_header_add(<< >>, "Accept-Application", "wml ua"),
                   headers |-> sp.rest]
             ELSE [returns |-> FALSE,
                   application_headers |-> << >>,
                   headers |-> sp.rest]

\* decode_bearer_indication: the bearer headers, the headers left, and
\* whether the bearer list was destroyed inside
decode_bearer_indication(headers) ==
    IF headers = NullHeaders
    THEN [bearer_headers |-> << >>, headers |-> headers, freed |-> FALSE]
    ELSE LET sp == split_header_list(headers, "Bearer-Indication")
         IN  IF Len(sp.found) # 1
             THEN [bearer_headers |-> << >>, headers |-> sp.rest,
                   freed |-> FALSE]
             ELSE LET coded_value == sp.found[1].value
                      value == wsp_bearer_indication_to_cstr(coded_value)
                  IN  IF value # "NULL" /\ coded_value # "0"
                      THEN [bearer_headers |->
                                http_header_add(<< >>, "Bearer-Indication",
                                                value),
                            headers |-> sp.rest, freed |-> FALSE]
                      ELSE [bearer_headers |-> << >>, headers |-> sp.rest,
                            freed |-> TRUE]

\* the bearer_indication field: NULL for an empty list; a list destroyed
\* inside decode_bearer_indication is read after it was freed, so its
\* length may be seen as 0 or not
BearerIndications(d) ==
    IF d.freed THEN {NullHeaders, << Header("dangling", "dangling") >>}
    ELSE IF Len(d.bearer_headers) = 0 THEN {NullHeaders}
    ELSE {d.bearer_headers}

\* indicate_push_connection: the Pom_Connect_Ind events it may dispatch
indicate_push_connection(e) ==
    LET app == check_application_headers(e.client_headers)
        d == decode_bearer_indication(app.headers)
    IN  { [type |-> "Pom_Connect_Ind",
           addr_tuple |-> e.addr_tuple,
           requested_capabilities |-> e.requested_capabilities,
           accept_application |-> app.application_headers,
           bearer_indication |-> b,
           push_headers |-> d.headers,
           session_id |-> e.session_id] : b \in BearerIndications(d) }

indicate_push_disconnect(e) ==
    [type |-> "Pom_Disconnect_Ind",
     reason_code |-> e.reason_code,
     error_headers |-> e.error_headers,
     error_body |-> e.error_body,
     session_handle |-> e.session_handle]

confirm_push(e) ==
    [type |-> "Po_ConfirmedPush_Cnf",
     server_push_id |-> e.server_push_id,
     session_handle |-> e.session_id]

indicate_push_abort(e) ==
    [type |-> "Po_PushAbort_Ind",
     push_id |-> e.push_id,
     reason |-> e.reason,
     session_handle |-> e.session_id]

indicate_push_suspend(e) ==
    [type |-> "Pom_Suspend_Ind",
     reason |-> e.reason,
     session_id |-> e.session_id]

\* indicate_push_resume: the Pom_Resume_Ind events it may dispatch
indicate_push_resume(e) ==
    LET d == decode_bearer_indication(e.client_headers)
    IN  { [type |-> "Pom_Resume_Ind",
           addr_tuple |-> e.addr_tuple,
           bearer_indication |-> b,
           client_headers |-> d.headers,
           session_id |-> e.session_id] : b \in BearerIndications(d) }

response_push_connection(e) ==
    [type |-> "S_Connect_Res",
     session_id |-> e.session_id,
     negotiated_capabilities |-> e.negotiated_capabilities]


(***************************************************************************)
(* main_thread: the consumer of the event queue.                           *)
(***************************************************************************)
\* the loop condition reads run_status before it blocks in list_consume
main_thread_test ==
    /\ assert_failed = "none"
    /\ main_pc = "loop"
    /\ main_pc' = IF run_status = "running" THEN "consume" ELSE "done"
    /\ UNCHANGED << run_status, queue, queue_producers, fetches, have_ppg,
                    wsp_smart_errors, device_home, wsp_http_map, referer_url,
                    reply_log, mapped, push_asked, dlr_mutex, dlr_thread, dlr_failed,
                    caller_pending, caller_results, caller_producers,
                    replies_pc, shutdown_pc, assert_failed, events,
                    destroyed, consumed, submitted, wsp_out, ppg_out >>

\* list_consume returns NULL: no event and no producer left
main_thread_exit ==
    /\ assert_failed = "none"
    /\ main_pc = "consume"
    /\ queue = << >>
    /\ queue_producers = 0
    /\ main_pc' = "done"
    /\ UNCHANGED << run_status, queue, queue_producers, fetches, have_ppg,
                    wsp_smart_errors, device_home, wsp_http_map, referer_url,
                    reply_log, mapped, push_asked, dlr_mutex, dlr_thread, dlr_failed,
                    caller_pending, caller_results, caller_producers,
                    replies_pc, shutdown_pc, assert_failed, events,
                    destroyed, consumed, submitted, wsp_out, ppg_out >>

\* list_consume returns the event at the head of the queue, of this type
Consume(type) ==
    /\ assert_failed = "none"
    /\ main_pc = "consume"
    /\ queue # << >>
    /\ events[Head(queue)].type = type
    /\ queue' = Tail(queue)
    /\ consumed' = Append(consumed, Head(queue))
    /\ UNCHANGED << run_status, queue_producers, have_ppg, wsp_smart_errors,
                    device_home, wsp_http_map, caller_results,
                    caller_producers, replies_pc, shutdown_pc, events >>

\* what wap_push_ppg_have_push_session_for may answer where it is asked
PushSessionAnswers(asked) == IF asked THEN BOOLEAN ELSE {FALSE}

NoFetch ==
    UNCHANGED << fetches, referer_url, reply_log, mapped, caller_pending,
                 submitted >>

\* the answer of the PPG about the push session of event id is on record
Asked(id, asked, has) ==
    /\ push_asked' = IF asked
                     THEN Append(push_asked, [id |-> id, have |-> has])
                     ELSE push_asked
    /\ UNCHANGED << dlr_mutex, dlr_thread, dlr_failed >>

\* a faulty main_thread that dispatches no S_MethodInvoke_Res:
\* C8_AckBeforeResult must reject it
Acknowledged_never(out, ind) == out

\* the S_MethodInvoke_Res of ind is dispatched to WSP
Acknowledged(out, ind) ==
    Append(out, [type |-> "S_MethodInvoke_Res",
                 server_transaction_id |-> ind.server_transaction_id,
                 session_id |-> ind.session_id])

case_S_MethodInvoke_Ind(Envs) ==
    /\ Consume("S_MethodInvoke_Ind")
    /\ start_fetch(Head(queue), Envs,
                   Acknowledged(wsp_out, events[Head(queue)]))
    /\ main_pc' = "loop"
    /\ UNCHANGED << ppg_out, assert_failed >>

case_S_Unit_MethodInvoke_Ind(Envs) ==
    /\ Consume("S_Unit_MethodInvoke_Ind")
    /\ start_fetch(Head(queue), Envs, wsp_out)
    /\ main_pc' = "loop"
    /\ UNCHANGED << ppg_out, assert_failed >>

case_S_Connect_Ind ==
    /\ Consume("S_Connect_Ind")
    /\ LET id == Head(queue)
           ind == events[id]
       IN  \E has \in PushSessionAnswers(have_ppg) :
             /\ Asked(id, have_ppg, has)
             /\ IF has
                THEN IF check_application_headers(ind.client_headers).returns
                     THEN /\ \E ev \in indicate_push_connection(ind) :
                                ppg_out' = Append(ppg_out, ev)
                          /\ destroyed' = wap_event_destroy(destroyed, id)
                          /\ main_pc' = "loop"
                          /\ UNCHANGED wsp_out
                     ELSE /\ main_pc' = "check_application_headers"
                          /\ UNCHANGED << ppg_out, destroyed, wsp_out >>
                ELSE /\ wsp_out' = Append(wsp_out,
                           [type |-> "S_Connect_Res",
                            server_headers |-> NullHeaders,
                            negotiated_capabilities |->
                                negotiate_capabilities(
                                    ind.requested_capabilities),
                            session_id |-> ind.session_id])
                     /\ destroyed' = wap_event_destroy(destroyed, id)
                     /\ main_pc' = "loop"
                     /\ UNCHANGED ppg_out
    /\ NoFetch
    /\ UNCHANGED assert_failed

case_S_Disconnect_Ind ==
    /\ Consume("S_Disconnect_Ind")
    /\ LET id == Head(queue)
           ind == events[id]
       IN  \E has \in PushSessionAnswers(have_ppg) :
             /\ Asked(id, have_ppg, has)
             /\ ppg_out' = IF has
                           THEN Append(ppg_out, indicate_push_disconnect(ind))
                           ELSE ppg_out
             /\ destroyed' = wap_event_destroy(destroyed, id)
    /\ main_pc' = "loop"
    /\ NoFetch
    /\ UNCHANGED << wsp_out, assert_failed >>

case_S_Suspend_Ind ==
    /\ Consume("S_Suspend_Ind")
    /\ LET id == Head(queue)
           ind == events[id]
       IN  \E has \in PushSessionAnswers(TRUE) :
             /\ Asked(id, TRUE, has)
             /\ ppg_out' = IF has
                           THEN Append(ppg_out, indicate_push_suspend(ind))
                           ELSE ppg_out
             /\ destroyed' = wap_event_destroy(destroyed, id)
    /\ main_pc' = "loop"
    /\ NoFetch
    /\ UNCHANGED << wsp_out, assert_failed >>

case_S_Resume_Ind ==
    /\ Consume("S_Resume_Ind")
    /\ LET id == Head(queue)
           ind == events[id]
       IN  \E has \in PushSessionAnswers(have_ppg) :
             /\ Asked(id, have_ppg, has)
             /\ IF has
                THEN /\ \E ev \in indicate_push_resume(ind) :
                           ppg_out' = Append(ppg_out, ev)
                     /\ UNCHANGED wsp_out
                ELSE /\ wsp_out' = Append(wsp_out,
                           [type |-> "S_Resume_Res",
                            server_headers |-> NullHeaders,
                            session_id |-> ind.session_id])
                     /\ UNCHANGED ppg_out
             /\ destroyed' = wap_event_destroy(destroyed, id)
    /\ main_pc' = "loop"
    /\ NoFetch
    /\ UNCHANGED assert_failed

case_S_MethodResult_Cnf ==
    /\ Consume("S_MethodResult_Cnf")
    /\ destroyed' = wap_event_destroy(destroyed, Head(queue))
    /\ main_pc' = "loop"
    /\ NoFetch
    /\ UNCHANGED << push_asked, dlr_mutex, dlr_thread, dlr_failed >>
    /\ UNCHANGED << wsp_out, ppg_out, assert_failed >>

case_S_ConfirmedPush_Cnf ==
    /\ Consume("S_ConfirmedPush_Cnf")
    /\ ppg_out' = Append(ppg_out, confirm_push(events[Head(queue)]))
    /\ destroyed' = wap_event_destroy(destroyed, Head(queue))
    /\ main_pc' = "loop"
    /\ NoFetch
    /\ UNCHANGED << push_asked, dlr_mutex, dlr_thread, dlr_failed >>
    /\ UNCHANGED << wsp_out, assert_failed >>

case_S_MethodAbort_Ind ==
    /\ Consume("S_MethodAbort_Ind")
    /\ destroyed' = wap_event_destroy(destroyed, Head(queue))
    /\ main_pc' = "loop"
    /\ NoFetch
    /\ UNCHANGED << push_asked, dlr_mutex, dlr_thread, dlr_failed >>
    /\ UNCHANGED << wsp_out, ppg_out, assert_failed >>

case_S_PushAbort_Ind ==
    /\ Consume("S_PushAbort_Ind")
    /\ ppg_out' = Append(ppg_out, indicate_push_abort(events[Head(queue)]))
    /\ destroyed' = wap_event_destroy(destroyed, Head(queue))
    /\ main_pc' = "loop"
    /\ NoFetch
    /\ UNCHANGED << push_asked, dlr_mutex, dlr_thread, dlr_failed >>
    /\ UNCHANGED << wsp_out, assert_failed >>

case_Pom_Connect_Res ==
    /\ Consume("Pom_Connect_Res")
    /\ wsp_out' = Append(wsp_out, response_push_connection(events[Head(queue)]))
    /\ destroyed' = wap_event_destroy(destroyed, Head(queue))
    /\ main_pc' = "loop"
    /\ NoFetch
    /\ UNCHANGED << push_asked, dlr_mutex, dlr_thread, dlr_failed >>
    /\ UNCHANGED << ppg_out, assert_failed >>

HandledTypes ==
    {"S_MethodInvoke_Ind", "S_Unit_MethodInvoke_Ind", "S_Connect_Ind",
     "S_Disconnect_Ind", "S_Suspend_Ind", "S_Resume_Ind",
     "S_MethodResult_Cnf", "S_ConfirmedPush_Cnf", "S_MethodAbort_Ind",
     "S_PushAbort_Ind", "Pom_Connect_Res"}

\* default: panic
case_default ==
    /\ assert_failed = "none"
    /\ main_pc = "consume"
    /\ queue # << >>
    /\ events[Head(queue)].type \notin HandledTypes
    /\ queue' = Tail(queue)
    /\ consumed' = Append(consumed, Head(queue))
    /\ assert_failed' = "main_thread"
    /\ UNCHANGED << run_status, queue_producers, fetches, have_ppg,
                    wsp_smart_errors, device_home, wsp_http_map, referer_url,
                    reply_log, mapped, push_asked, dlr_mutex, dlr_thread, dlr_failed,
                    caller_pending, caller_results, caller_producers,
                    main_pc, replies_pc, shutdown_pc, events, destroyed,
                    submitted, wsp_out, ppg_out >>

main_thread(Envs) ==
    \/ main_thread_test
    \/ main_thread_exit
    \/ case_S_MethodInvoke_Ind(Envs)
    \/ case_S_Unit_MethodInvoke_Ind(Envs)
    \/ case_S_Connect_Ind
    \/ case_S_Disconnect_Ind
    \/ case_S_Suspend_Ind
    \/ case_S_Resume_Ind
    \/ case_S_MethodResult_Cnf
    \/ case_S_ConfirmedPush_Cnf
    \/ case_S_MethodAbort_Ind
    \/ case_S_PushAbort_Ind
    \/ case_Pom_Connect_Res
    \/ case_default


(***************************************************************************)
(* return_replies_thread: the consumer of HTTP completions.                *)
(***************************************************************************)
\* the loop condition reads run_status before http_receive_result blocks
return_replies_test ==
    /\ assert_failed = "none"
    /\ replies_pc = "loop"
    /\ replies_pc' = IF run_status = "running" THEN "receive" ELSE "done"
    /\ UNCHANGED << run_status, queue, queue_producers, fetches, have_ppg,
                    wsp_smart_errors, device_home, wsp_http_map, referer_url,
                    reply_log, mapped, push_asked, dlr_mutex, dlr_thread, dlr_failed,
                    caller_pending, caller_results, caller_producers,
                    main_pc, shutdown_pc, assert_failed, events,
                    destroyed, consumed, submitted, wsp_out, ppg_out >>

\* http_receive_result returns NULL: the caller was told to shut down
return_replies_exit ==
    /\ assert_failed = "none"
    /\ replies_pc = "receive"
    /\ caller_results = << >>
    /\ caller_producers = 0
    /\ replies_pc' = "done"
    /\ UNCHANGED << run_status, queue, queue_producers, fetches, have_ppg,
                    wsp_smart_errors, device_home, wsp_http_map, referer_url,
                    reply_log, mapped, push_asked, dlr_mutex, dlr_thread, dlr_failed,
                    caller_pending, caller_results, caller_producers,
                    main_pc, shutdown_pc, assert_failed, events,
                    destroyed, consumed, submitted, wsp_out, ppg_out >>

\* http_receive_result returns a completion: return_reply, then the event,
\* the request headers and the request data are freed
return_replies_reply(Envs) ==
    /\ assert_failed = "none"
    /\ replies_pc = "receive"
    /\ caller_results # << >>
    /\ LET c == Head(caller_results)
           p == c.p
       IN  \E env \in Envs :
             /\ Returned(return_reply(c.status, c.body, c.headers,
                             p.client_SDU_size, events[p.event],
                             p.session_id, p.url, p.x_wap_tod,
                             p.request_headers, env),
                         p.url, p.session_id, fetches, wsp_out)
             /\ destroyed' = wap_event_destroy(destroyed, p.event)
    /\ caller_results' = Tail(caller_results)
    /\ replies_pc' = "loop"
    /\ UNCHANGED << run_status, queue, queue_producers, have_ppg,
                    wsp_smart_errors, device_home, wsp_http_map,
                    caller_pending, caller_producers, main_pc, shutdown_pc,
                    assert_failed, events, consumed, submitted, ppg_out >>

return_replies_thread(Envs) ==
    \/ return_replies_test
    \/ return_replies_exit
    \/ return_replies_reply(Envs)

(***************************************************************************)
(* The HTTP caller: a request started with http_start_request completes    *)
(* at any time with a status, headers and a body.                          *)
(***************************************************************************)
http_complete(Results) ==
    /\ assert_failed = "none"
    /\ shutdown_pc # "returned"
    /\ \E p \in caller_pending, r \in Results :
         /\ caller_pending' = caller_pending \ {p}
         /\ caller_results' = Append(caller_results,
                [p |-> p, status |-> r.status, headers |-> r.headers,
                 body |-> r.body])
    /\ UNCHANGED << run_status, queue, queue_producers, fetches, have_ppg,
                    wsp_smart_errors, device_home, wsp_http_map, referer_url,
                    reply_log, mapped, push_asked, dlr_mutex, dlr_thread, dlr_failed,
                    caller_producers, main_pc, replies_pc, shutdown_pc,
                    assert_failed, events, destroyed, consumed, submitted,
                    wsp_out, ppg_out >>

(***************************************************************************)
(* The public interface.                                                   *)
(***************************************************************************)
Configs == {"NULL", "cfg"}

wap_appl_init(cfg) ==
    /\ assert_failed = "none"
    /\ IF run_status # "limbo"
       THEN /\ assert_failed' = "wap_appl_init"
            /\ UNCHANGED << run_status, queue_producers, caller_producers,
                            fetches, main_pc, replies_pc, have_ppg >>
       ELSE /\ queue_producers' = 1
            /\ fetches' = 0
            /\ run_status' = "running"
            /\ caller_producers' = 1
            /\ main_pc' = "loop"
            /\ replies_pc' = "loop"
            /\ have_ppg' = (cfg # "NULL")
            /\ UNCHANGED assert_failed
    /\ UNCHANGED << queue, wsp_smart_errors, device_home, wsp_http_map,
                    referer_url, reply_log, mapped, push_asked, dlr_mutex, dlr_thread, dlr_failed, caller_pending, caller_results,
                    shutdown_pc, events, destroyed, consumed, submitted,
                    wsp_out, ppg_out >>

\* the status wap_appl_shutdown sets on entry
ShutdownStatus == "terminating"

\* gw_assert, run_status = terminating, list_remove_producer; the caller
\* then waits for main_thread
wap_appl_shutdown ==
    /\ assert_failed = "none"
    /\ shutdown_pc = "idle"
    /\ IF run_status # "running"
       THEN /\ assert_failed' = "wap_appl_shutdown"
            /\ UNCHANGED << run_status, queue_producers, shutdown_pc >>
       ELSE /\ run_status' = ShutdownStatus
            /\ queue_producers' = queue_producers - 1
            /\ shutdown_pc' = "join_main_thread"
            /\ UNCHANGED assert_failed
    /\ UNCHANGED << queue, fetches, have_ppg, wsp_smart_errors, device_home,
                    wsp_http_map, referer_url, reply_log, mapped, push_asked, dlr_mutex, dlr_thread, dlr_failed, caller_pending,
                    caller_results, caller_producers, main_pc, replies_pc,
                    events, destroyed, consumed, submitted, wsp_out,
                    ppg_out >>

\* main_thread has been joined: http_caller_signal_shutdown; the caller
\* then waits for return_replies_thread
shutdown_signal ==
    /\ assert_failed = "none"
    /\ shutdown_pc = "join_main_thread"
    /\ main_pc = "done"
    /\ caller_producers' = caller_producers - 1
    /\ shutdown_pc' = "join_return_replies_thread"
    /\ UNCHANGED << run_status, queue, queue_producers, fetches, have_ppg,
                    wsp_smart_errors, device_home, wsp_http_map, referer_url,
                    reply_log, mapped, push_asked, dlr_mutex, dlr_thread, dlr_failed,
                    caller_pending, caller_results, main_pc, replies_pc,
                    assert_failed, events, destroyed, consumed, submitted,
                    wsp_out, ppg_out >>

RECURSIVE DestroyAll(_, _)
\* list_destroy(queue, wap_event_destroy_item)
DestroyAll(d, q) ==
    IF q = << >> THEN d ELSE DestroyAll(wap_event_destroy(d, Head(q)), Tail(q))

\* the status wap_appl_shutdown leaves behind: it assigns none after
\* terminating
StatusAfterShutdown(status) == status

\* return_replies_thread has been joined: the caller, the queue, the
\* charsets and the counter are destroyed and wap_appl_shutdown returns.
\* http_caller_destroy frees the caller, not the request contexts that are
\* still with it: they stay as they are, and nothing reads them again
shutdown_destroy ==
    /\ assert_failed = "none"
    /\ shutdown_pc = "join_return_replies_thread"
    /\ replies_pc = "done"
    /\ destroyed' = DestroyAll(destroyed, queue)
    /\ queue' = << >>
    /\ run_status' = StatusAfterShutdown(run_status)
    /\ shutdown_pc' = "returned"
    /\ UNCHANGED << queue_producers, fetches, have_ppg, wsp_smart_errors,
                    device_home, wsp_http_map, referer_url, reply_log, mapped, push_asked, dlr_mutex, dlr_thread, dlr_failed, caller_pending,
                    caller_results, caller_producers, main_pc, replies_pc,
                    assert_failed, events, consumed, submitted, wsp_out,
                    ppg_out >>

\* a faulty wap_appl_dispatch that puts the event at the head of the
\* queue: C24_RoutedInDispatchOrder must reject it
wap_appl_dispatch_at_head(event) ==
    /\ assert_failed = "none"
    /\ run_status = "running"
    /\ queue' = << Len(events) + 1 >> \o queue
    /\ events' = Append(events, event)
    /\ destroyed' = Append(destroyed, 0)
    /\ UNCHANGED << run_status, queue_producers, fetches, have_ppg,
                    wsp_smart_errors, device_home, wsp_http_map, referer_url,
                    reply_log, mapped, push_asked, dlr_mutex, dlr_thread, dlr_failed,
                    caller_pending, caller_results, caller_producers,
                    main_pc, replies_pc, shutdown_pc, consumed, submitted,
                    wsp_out, ppg_out, assert_failed >>

\* a faulty wap_appl_dispatch without the assertion:
\* C6_QueueGrowsOnlyRunning must reject it
wap_appl_dispatch_unguarded(event) ==
    /\ assert_failed = "none"
    /\ queue' = Append(queue, Len(events) + 1)
    /\ events' = Append(events, event)
    /\ destroyed' = Append(destroyed, 0)
    /\ UNCHANGED << run_status, queue_producers, fetches, have_ppg,
                    wsp_smart_errors, device_home, wsp_http_map, referer_url,
                    reply_log, mapped, push_asked, dlr_mutex, dlr_thread, dlr_failed,
                    caller_pending, caller_results, caller_producers,
                    main_pc, replies_pc, shutdown_pc, assert_failed,
                    consumed, submitted, wsp_out, ppg_out >>

\* gw_assert(run_status == running); list_produce(queue, event)
wap_appl_dispatch(event) ==
    /\ assert_failed = "none"
    /\ IF run_status # "running"
       THEN /\ assert_failed' = "wap_appl_dispatch"
            /\ UNCHANGED << queue, events, destroyed >>
       ELSE /\ queue' = Append(queue, Len(events) + 1)
            /\ events' = Append(events, event)
            /\ destroyed' = Append(destroyed, 0)
            /\ UNCHANGED assert_failed
    /\ UNCHANGED << run_status, queue_producers, fetches, have_ppg,
                    wsp_smart_errors, device_home, wsp_http_map, referer_url,
                    reply_log, mapped, push_asked, dlr_mutex, dlr_thread, dlr_failed,
                    caller_pending, caller_results, caller_producers,
                    main_pc, replies_pc, shutdown_pc, consumed, submitted,
                    wsp_out, ppg_out >>


(***************************************************************************)
(* Inputs: the events the WSP layer and the PPG dispatch, the results the  *)
(* HTTP caller gives, and the outcomes of the compilers and the clock.     *)
(***************************************************************************)
PAGE_URL == <<"h",":","p">>
DEV_URL == <<"d","e","v">>
HOME_URL == <<"h",":","h">>
Sids == {1, 2}
Tuple1 == [local |-> "", remote |-> "10.0.0.1"]
TodHeader == Header("X-WAP.TOD", "client-date")

S_MethodInvoke_Ind(id, method, uri, sid, sdu, rh, sh) ==
    [type |-> "S_MethodInvoke_Ind",
     server_transaction_id |-> id,
     session_id |-> sid,
     request_uri |-> uri,
     method |-> method,
     request_headers |-> rh,
     session_headers |-> sh,
     request_body |-> NullBody,
     addr_tuple |-> Tuple1,
     client_SDU_size |-> sdu]

S_Unit_MethodInvoke_Ind(id, method, uri, rh) ==
    [type |-> "S_Unit_MethodInvoke_Ind",
     transaction_id |-> id,
     request_uri |-> uri,
     method |-> method,
     request_headers |-> rh,
     request_body |-> NullBody,
     addr_tuple |-> Tuple1]

\* the client headers of S_Connect_Ind and S_Resume_Ind
ClientHeaderInputs == { << >> }

\* the events that are not fetches, one of each type, and one of a type
\* main_thread does not handle
ControlEvents(id) ==
    { [type |-> "S_Connect_Ind", session_id |-> 1, addr_tuple |-> Tuple1,
       client_headers |-> ch, requested_capabilities |-> << >>]
        : ch \in ClientHeaderInputs }
    \cup
    { [type |-> "S_Resume_Ind", session_id |-> 1, addr_tuple |-> Tuple1,
       client_headers |-> ch] : ch \in ClientHeaderInputs }
    \cup
    { [type |-> "S_Disconnect_Ind", session_handle |-> 1,
       reason_code |-> 0, error_headers |-> NullHeaders,
       error_body |-> NullBody],
      [type |-> "S_Suspend_Ind", session_id |-> 1, reason |-> 0],
      [type |-> "S_MethodResult_Cnf", server_transaction_id |-> id,
       session_id |-> 1],
      [type |-> "S_ConfirmedPush_Cnf", server_push_id |-> id,
       session_id |-> 1],
      [type |-> "S_MethodAbort_Ind", transaction_id |-> id,
       session_id |-> 1],
      [type |-> "S_PushAbort_Ind", push_id |-> id, reason |-> 0,
       session_id |-> 1],
      [type |-> "Pom_Connect_Res", negotiated_capabilities |-> << >>,
       session_id |-> 1],
      [type |-> "TR_Invoke_Ind"] }

\* Spec: one fetch of each path, for a session and connectionless
NarrowEvents(id) ==
    { S_MethodInvoke_Ind(id, m, u, 1, 0, << >>, << >>)
        : m \in {"GET", "PUT"}, u \in {KANNEL_ALIVE, PAGE_URL} }
    \cup
    { S_Unit_MethodInvoke_Ind(id, m, PAGE_URL, << >>) : m \in {"GET", "PUT"} }
    \cup ControlEvents(id)

RequestHeaderInputs ==
    { << TodHeader >>,
      << Header("Accept", "text/plain") >>,
      << Header("Accept", "application/vnd.wap.wmlc") >>,
      << Header("Connection", "close"), Header("Accept", "text/html"),
         TodHeader >> }

SessionHeaderInputs == { NullHeaders, << TodHeader >> }

\* SpecWide: the client headers of S_Connect_Ind: none, without and with
\* a bearer indication (registered, reserved, and two of them), and with an
\* application id
PushHeaderInputs ==
    { NullHeaders,
      << Header("User-Agent", "ua") >>,
      << Header("Bearer-Indication", "1"), Header("User-Agent", "ua") >>,
      << Header("Bearer-Indication", "0") >>,
      << Header("Bearer-Indication", "9"), Header("User-Agent", "ua") >>,
      << Header("Bearer-Indication", "1"), Header("Bearer-Indication", "2") >>,
      << Header("Accept-Application", "2") >> }

\* SpecWide: fetches of every method and URL with plain headers, and GET
\* with every SDU size and header list
WideEvents(id) ==
    { S_MethodInvoke_Ind(id, m, u, 1, 0, << >>, NullHeaders)
        : m \in {"GET", "POST", "HEAD", "PUT"},
          u \in {KANNEL_ALIVE, PAGE_URL, DEV_URL} }
    \cup
    { S_MethodInvoke_Ind(id, "GET", u, 1, sdu, rh, sh)
        : u \in {KANNEL_ALIVE, PAGE_URL}, sdu \in {0, SduLimit},
          rh \in RequestHeaderInputs, sh \in SessionHeaderInputs }
    \cup
    { S_MethodInvoke_Ind(id, "GET", u, 3, 0, << >>, NullHeaders)
        : u \in {KANNEL_ALIVE, PAGE_URL} }
    \cup
    { S_Unit_MethodInvoke_Ind(id, m, u, rh)
        : m \in {"GET", "PUT"},
          u \in {KANNEL_ALIVE, PAGE_URL},
          rh \in {NullHeaders, << >>, << TodHeader >>} }
    \cup
    { [type |-> "S_Connect_Ind", session_id |-> 1, addr_tuple |-> Tuple1,
       client_headers |-> ch, requested_capabilities |-> << >>]
        : ch \in PushHeaderInputs }
    \cup
    { [type |-> "S_Resume_Ind", session_id |-> 1, addr_tuple |-> Tuple1,
       client_headers |-> ch] : ch \in PushHeaderInputs }
    \cup ControlEvents(id)

Page(len) == Body("page", NullUrl, "text", len)

HttpResult(status, headers, body) ==
    [status |-> status, headers |-> headers, body |-> body]

\* the HTTP layer failed to produce a response
FailedResult == HttpResult(-1, NullHeaders, NullBody)

NarrowResults ==
    { FailedResult,
      HttpResult(200, << Header("Content-Type", "text/vnd.wap.wml") >>,
                 Page(ShortBodyLen)) }

ResponseHeaderInputs ==
    { << Header("X-WAP.TOD", "server-date") >>,
      << Header("Connection", "close"), Header("Content-Length", "9") >> }

\* SpecWide: failures, pages of every status, type and length, and pages
\* with more headers or without a Content-Type
WideResults ==
    { FailedResult,
      HttpResult(-1, << Header("Content-Type", "text/html") >>, NullBody) }
    \cup
    { HttpResult(st, << Header("Content-Type", ty) >>, Page(len))
        : st \in {200, 404},
          ty \in {"text/vnd.wap.wml", "text/vnd.wap.wmlscript",
                  "text/html"},
          len \in {ShortBodyLen, LongBodyLen} }
    \cup
    { HttpResult(200, << Header("Content-Type", "text/vnd.wap.wml") >> \o h,
                 Page(ShortBodyLen)) : h \in ResponseHeaderInputs }
    \cup
    { HttpResult(200, << >>, Page(LongBodyLen)),
      HttpResult(202, << Header("Content-Type", "text/html") >>,
                 Page(LongBodyLen)) }

Env(wml, ws, date_ok, deck_len) ==
    [wml |-> wml, ws |-> ws, date_ok |-> date_ok, deck_len |-> deck_len]

NarrowEnvs == { Env(w, -1, TRUE, LongBodyLen) : w \in {-1, ShortBodyLen} }

\* SpecWide: every outcome of the WML compiler and of date_format_http, and
\* the WMLScript compiler succeeding
WideEnvs ==
    { Env(w, -1, d, l) : w \in {-1, ShortBodyLen, LongBodyLen},
                         d \in BOOLEAN,
                         l \in {LongBodyLen} }
    \cup { Env(-1, ShortBodyLen, TRUE, ShortBodyLen) }

\* map-url configurations: none; and DEV mapped onto the health URL with
\* every kannel: URL mapped away
MapTables ==
    { << >>,
      wsp_http_map_url_do_config(
          wsp_http_map_url_do_config(<< >>, <<"D","E","V">>, KANNEL_ALIVE),
          <<"K","A","N","N","E","L",":","*">>, <<"h",":","*">>) }

(***************************************************************************)
(* Spec: the module from limbo, without smart errors, device home or       *)
(* map-url rules, with up to MaxEvents events dispatched.                  *)
(***************************************************************************)
Init ==
    /\ run_status = "limbo"
    /\ queue = << >>
    /\ queue_producers = 0
    /\ fetches = 0
    /\ have_ppg = FALSE
    /\ wsp_smart_errors = FALSE
    /\ device_home = NullUrl
    /\ wsp_http_map = << >>
    /\ referer_url = [s \in Sids |-> NullUrl]
    /\ reply_log = << >>
    /\ mapped = NoRewrite
    /\ push_asked = << >>
    /\ dlr_mutex = -1
    /\ dlr_thread = << >>
    /\ dlr_failed = FALSE
    /\ caller_pending = {}
    /\ caller_results = << >>
    /\ caller_producers = 0
    /\ main_pc = "none"
    /\ replies_pc = "none"
    /\ shutdown_pc = "idle"
    /\ assert_failed = "none"
    /\ events = << >>
    /\ destroyed = << >>
    /\ consumed = << >>
    /\ submitted = {}
    /\ wsp_out = << >>
    /\ ppg_out = << >>

Dispatch ==
    /\ Len(events) < MaxEvents
    /\ \E e \in NarrowEvents(Len(events) + 1) : wap_appl_dispatch(e)

Next ==
    \/ \E cfg \in Configs : wap_appl_init(cfg)
    \/ Dispatch
    \/ wap_appl_shutdown
    \/ shutdown_signal
    \/ shutdown_destroy
    \/ main_thread(NarrowEnvs)
    \/ return_replies_thread(NarrowEnvs)
    \/ http_complete(NarrowResults)

Spec == Init /\ [][Next]_vars

(***************************************************************************)
(* SpecSession: the module running, with two events on the queue: requests *)
(* of two sessions and of no session, for a page and for the empty URL,    *)
(* with and without an SDU limit, and the session events; smart errors and *)
(* device_home as configured.                                              *)
(***************************************************************************)
SessionEvents(id) ==
    { S_MethodInvoke_Ind(id, "GET", u, 1, 0, << >>, << >>)
        : u \in {PAGE_URL, << >>} }
    \cup
    { S_MethodInvoke_Ind(id, "GET", PAGE_URL, 2, 0, << >>, << >>),
      S_MethodInvoke_Ind(id, "GET", PAGE_URL, 1, SduLimit, << >>, << >>),
      S_Unit_MethodInvoke_Ind(id, "GET", PAGE_URL, << >>) }
    \cup ControlEvents(id)

InitSession ==
    /\ run_status = "running"
    /\ \E e1 \in SessionEvents(1), e2 \in SessionEvents(2) :
          events = << e1, e2 >>
    /\ queue = << 1, 2 >>
    /\ queue_producers = 1
    /\ fetches = 0
    /\ have_ppg = FALSE
    /\ wsp_smart_errors \in BOOLEAN
    /\ device_home \in {NullUrl, HOME_URL}
    /\ wsp_http_map = << >>
    /\ referer_url = [s \in Sids |-> NullUrl]
    /\ reply_log = << >>
    /\ mapped = NoRewrite
    /\ push_asked = << >>
    /\ dlr_mutex = -1
    /\ dlr_thread = << >>
    /\ dlr_failed = FALSE
    /\ caller_pending = {}
    /\ caller_results = << >>
    /\ caller_producers = 1
    /\ main_pc = "loop"
    /\ replies_pc = "loop"
    /\ shutdown_pc = "idle"
    /\ assert_failed = "none"
    /\ destroyed = << 0, 0 >>
    /\ consumed = << >>
    /\ submitted = {}
    /\ wsp_out = << >>
    /\ ppg_out = << >>

(***************************************************************************)
(* SpecWide: the module running, with one event of the wide inputs on the  *)
(* queue; the event is routed, fetched and replied to, or shut down.       *)
(***************************************************************************)
InitWide ==
    /\ run_status = "running"
    /\ \E e \in WideEvents(1) : events = << e >>
    /\ queue = << 1 >>
    /\ queue_producers = 1
    /\ fetches = 0
    /\ have_ppg \in BOOLEAN
    /\ wsp_smart_errors \in BOOLEAN
    /\ device_home \in {NullUrl, HOME_URL}
    /\ wsp_http_map \in MapTables
    /\ referer_url = [s \in Sids |-> NullUrl]
    /\ reply_log = << >>
    /\ mapped = NoRewrite
    /\ push_asked = << >>
    /\ dlr_mutex = -1
    /\ dlr_thread = << >>
    /\ dlr_failed = FALSE
    /\ caller_pending = {}
    /\ caller_results = << >>
    /\ caller_producers = 1
    /\ main_pc = "loop"
    /\ replies_pc = "loop"
    /\ shutdown_pc = "idle"
    /\ assert_failed = "none"
    /\ destroyed = << 0 >>
    /\ consumed = << >>
    /\ submitted = {}
    /\ wsp_out = << >>
    /\ ppg_out = << >>

NextWide ==
    \/ wap_appl_shutdown
    \/ shutdown_signal
    \/ shutdown_destroy
    \/ main_thread(WideEnvs)
    \/ return_replies_thread(WideEnvs)
    \/ http_complete(WideResults)

SpecWide == InitWide /\ [][NextWide]_vars

(***************************************************************************)
(* What the properties below read from a state.                            *)
(***************************************************************************)
EventIds == 1..Len(events)
ConsumedIds == { consumed[i] : i \in 1..Len(consumed) }
IsInvoke(id) == events[id].type = "S_MethodInvoke_Ind"
IsFetch(id) ==
    events[id].type \in {"S_MethodInvoke_Ind", "S_Unit_MethodInvoke_Ind"}

\* the places in wsp_out of the S_MethodResult_Req events of invoke id
ResultsFor(id) ==
    { j \in 1..Len(wsp_out) :
        /\ wsp_out[j].type = "S_MethodResult_Req"
        /\ wsp_out[j].server_transaction_id = events[id].server_transaction_id
        /\ wsp_out[j].session_id = events[id].session_id }

\* the places in wsp_out of the S_MethodInvoke_Res events of invoke id
AcksFor(id) ==
    { j \in 1..Len(wsp_out) :
        /\ wsp_out[j].type = "S_MethodInvoke_Res"
        /\ wsp_out[j].server_transaction_id = events[id].server_transaction_id
        /\ wsp_out[j].session_id = events[id].session_id }

\* the places in wsp_out of all replies, for sessions and connectionless
Replies ==
    { j \in 1..Len(wsp_out) :
        wsp_out[j].type \in {"S_MethodResult_Req", "S_Unit_MethodResult_Req"} }

\* the HTTP request of event id is started and return_reply has not run
InFlight(id) ==
    \/ \E p \in caller_pending : p.event = id
    \/ \E i \in 1..Len(caller_results) : caller_results[i].p.event = id

\* the fetch events still on the queue
QueuedFetches == { i \in 1..Len(queue) : IsFetch(queue[i]) }

\* the event that reply j answers
Origin(j) ==
    CHOOSE id \in EventIds :
        /\ IsFetch(id)
        /\ IF wsp_out[j].type = "S_MethodResult_Req"
           THEN /\ IsInvoke(id)
                /\ events[id].server_transaction_id
                     = wsp_out[j].server_transaction_id
           ELSE /\ ~IsInvoke(id)
                /\ events[id].transaction_id = wsp_out[j].transaction_id

\* the request of event e carried an X-WAP.TOD header
RequestCarriesTod(e) ==
    \/ HasHeader(e.request_headers, "X-WAP.TOD")
    \/ /\ e.type = "S_MethodInvoke_Ind"
       /\ HasHeader(e.session_headers, "X-WAP.TOD")

TodHeaders(j) == http_header_find_all(wsp_out[j].response_headers, "X-WAP.TOD")

\* a GET of a session with client_SDU_size 0
IsPlainGet(e) ==
    /\ e.type = "S_MethodInvoke_Ind"
    /\ e.method = "GET"
    /\ e.client_SDU_size = 0

(***************************************************************************)
(* C1.                                                                     *)
(***************************************************************************)
\* C1 (as amended): an S_MethodInvoke_Ind that main_thread has consumed has
\* no S_MethodResult_Req while its HTTP request is in flight, and exactly
\* one once return_reply has run for it, never two; every S_MethodResult_Req
\* carries the server_transaction_id and session_id of a consumed invoke.
\* A request still in flight when wap_appl_shutdown returns keeps none.
C1_AtMostOneResult ==
    /\ \A id \in ConsumedIds :
         IsInvoke(id) =>
           Cardinality(ResultsFor(id)) = IF InFlight(id) THEN 0 ELSE 1
    /\ \A j \in 1..Len(wsp_out) :
         wsp_out[j].type = "S_MethodResult_Req" =>
           \E id \in ConsumedIds : IsInvoke(id) /\ j \in ResultsFor(id)

\* C1: a reply that came through return_replies_thread is there, once
C1_PumpedResult ==
    \E id \in submitted :
        IsInvoke(id) /\ ~InFlight(id) /\ Cardinality(ResultsFor(id)) = 1

\* C1 (as stated): every consumed S_MethodInvoke_Ind gets exactly one
\* S_MethodResult_Req: never two, and one at the latest when
\* wap_appl_shutdown has returned and nothing can be emitted any more
C1_ExactlyOneResult ==
    /\ \A id \in ConsumedIds :
         IsInvoke(id) => Cardinality(ResultsFor(id)) <= 1
    /\ shutdown_pc = "returned" =>
         \A id \in ConsumedIds :
             IsInvoke(id) => Cardinality(ResultsFor(id)) = 1

(***************************************************************************)
(* C2.                                                                     *)
(***************************************************************************)
\* C2 (as stated): no event is destroyed twice, and when wap_appl_shutdown
\* has returned every dispatched event has been destroyed once
C2_DestroyedExactlyOnce ==
    /\ \A id \in EventIds : destroyed[id] <= 1
    /\ shutdown_pc = "returned" => \A id \in EventIds : destroyed[id] = 1

(***************************************************************************)
(* C3.                                                                     *)
(***************************************************************************)
\* C3 (as stated): when wap_appl_shutdown has returned, run_status is limbo
C3_LimboAfterShutdown == shutdown_pc = "returned" => run_status = "limbo"

(***************************************************************************)
(* C4.                                                                     *)
(***************************************************************************)
\* C4 (as stated): when wap_appl_shutdown destroys the counter and returns,
\* the counter of outstanding fetches is zero
C4_CounterZeroAtTeardown == shutdown_pc = "returned" => fetches = 0

(***************************************************************************)
(* C5.                                                                     *)
(***************************************************************************)
\* C5 (as amended): while running, the counter of outstanding fetches is
\* the number of HTTP requests in flight; fetch events still on the queue
\* are not counted
C5_CounterIsInFlight ==
    run_status = "running" =>
        fetches = Cardinality(caller_pending) + Len(caller_results)

\* C5: running, with one request in flight and a fetch event on the queue
C5_InFlightAndQueued ==
    /\ run_status = "running"
    /\ fetches = 1
    /\ QueuedFetches # {}

\* C5 (as stated): while running, the counter is the number of fetch events
\* on the queue plus the number of HTTP requests in flight
C5_CounterIsQueuedPlusInFlight ==
    run_status = "running" =>
        fetches = Cardinality(QueuedFetches)
                  + Cardinality(caller_pending) + Len(caller_results)

(***************************************************************************)
(* C6.                                                                     *)
(***************************************************************************)
\* C6: the queue grows only by one event, produced by wap_appl_dispatch
\* while run_status is running; a wap_appl_dispatch in another status fails
\* its assertion and leaves the queue as it was
C6_QueueGrowsOnlyRunning ==
    [][ /\ Len(queue') > Len(queue) =>
             /\ run_status = "running"
             /\ events' # events
             /\ queue' = Append(queue, Len(events'))
        /\ (assert_failed = "none" /\ assert_failed' = "wap_appl_dispatch") =>
             /\ run_status # "running"
             /\ queue' = queue
             /\ events' = events ]_vars

\* C6: a dispatch was accepted while running and a later one, made while
\* terminating, failed the assertion
C6_DispatchRefused ==
    /\ assert_failed = "wap_appl_dispatch"
    /\ run_status = "terminating"
    /\ Len(events) >= 1

(***************************************************************************)
(* C7.                                                                     *)
(***************************************************************************)
\* the reply j is the health deck as the WML compiler left it: compiled,
\* or, when the compiler failed, the text as it was
HealthReply(j) ==
    /\ wsp_out[j].status = HTTP_OK
    /\ Len(http_header_find_all(wsp_out[j].response_headers,
                                "Content-Type")) = 1
    /\ \/ /\ wsp_out[j].response_body.data = HEALTH_DECK.data
          /\ wsp_out[j].response_body.form = "wmlc"
          /\ http_header_get_content_type(wsp_out[j].response_headers)
               = "application/vnd.wap.wmlc"
       \/ /\ wsp_out[j].response_body = HEALTH_DECK
          /\ http_header_get_content_type(wsp_out[j].response_headers)
               = "text/vnd.wap.wml"

C8_AckBeforeResult ==
    \A id \in EventIds :
        IsInvoke(id) =>
            \A j \in ResultsFor(id) : \E i \in AcksFor(id) : i < j

\* C8: a reply made inside start_fetch and a reply that came through
\* return_replies_thread have both been sent
C8_BothKindsOfResult ==
    /\ \E id \in submitted : IsInvoke(id) /\ ResultsFor(id) # {}
    /\ \E id \in ConsumedIds \ submitted : IsInvoke(id) /\ ResultsFor(id) # {}

C10_BodyWithinSdu ==
    \A id \in EventIds :
        (IsInvoke(id) /\ events[id].client_SDU_size > 0) =>
            \A j \in ResultsFor(id) :
                octstr_len(wsp_out[j].response_body)
                    <= events[id].client_SDU_size

\* C10: a fetched page was too large and was replaced by an empty 502
C10_PageSuppressed ==
    \E id \in submitted :
        /\ IsInvoke(id)
        /\ events[id].client_SDU_size > 0
        /\ wsp_smart_errors
        /\ \E j \in ResultsFor(id) :
             /\ wsp_out[j].status = HTTP_BAD_GATEWAY
             /\ octstr_len(wsp_out[j].response_body) = 0

(***************************************************************************)
(* SpecLive: the module running with one event on the queue, under a fair *)
(* scheduler: a thread that can take a step takes one, and                 *)
(* wap_appl_shutdown goes on when the thread it joins has ended.  Nothing  *)
(* is assumed of the caller of wap_appl_shutdown nor of the HTTP layer.    *)
(***************************************************************************)
\* the events of SpecLive: those of Spec, and a connection whose client
\* names an application
LiveEvents(id) ==
    NarrowEvents(id)
    \cup
    { [type |-> "S_Connect_Ind", session_id |-> 1, addr_tuple |-> Tuple1,
       client_headers |-> << Header("Accept-Application", "2") >>,
       requested_capabilities |-> << >>] }

InitLive ==
    /\ run_status = "running"
    /\ \E e \in LiveEvents(1) : events = << e >>
    /\ queue = << 1 >>
    /\ queue_producers = 1
    /\ fetches = 0
    /\ have_ppg \in BOOLEAN
    /\ wsp_smart_errors = FALSE
    /\ device_home = NullUrl
    /\ wsp_http_map = << >>
    /\ referer_url = [s \in Sids |-> NullUrl]
    /\ reply_log = << >>
    /\ mapped = NoRewrite
    /\ push_asked = << >>
    /\ dlr_mutex = -1
    /\ dlr_thread = << >>
    /\ dlr_failed = FALSE
    /\ caller_pending = {}
    /\ caller_results = << >>
    /\ caller_producers = 1
    /\ main_pc = "loop"
    /\ replies_pc = "loop"
    /\ shutdown_pc = "idle"
    /\ assert_failed = "none"
    /\ destroyed = << 0 >>
    /\ consumed = << >>
    /\ submitted = {}
    /\ wsp_out = << >>
    /\ ppg_out = << >>

NextLive ==
    \/ wap_appl_shutdown
    \/ shutdown_signal
    \/ shutdown_destroy
    \/ main_thread(NarrowEnvs)
    \/ return_replies_thread(NarrowEnvs)
    \/ http_complete(NarrowResults)

Fairness ==
    /\ WF_vars(main_thread(NarrowEnvs))
    /\ WF_vars(return_replies_thread(NarrowEnvs))
    /\ WF_vars(shutdown_signal)
    /\ WF_vars(shutdown_destroy)

SpecLive == InitLive /\ [][NextLive]_vars /\ Fairness

\* SpecSession takes the steps of SpecLive from its own initial states
SpecSession == InitSession /\ [][NextLive]_vars

(***************************************************************************)
(* SpecMap: the map-url mechanism.  The configuration is read while the    *)
(* module is in limbo, one "map-url" or "device-home" statement at a       *)
(* time; once the module runs, URLs are rewritten as start_fetch does.     *)
(***************************************************************************)
MaxRules == 2
MaxUrlLen == 2

\* the strings over alphabet A of length 1..n
RECURSIVE Strings(_, _)
Strings(A, n) ==
    IF n = 0 THEN {}
    ELSE LET S == Strings(A, n - 1)
         IN  { << c >> : c \in A } \cup S
             \cup { Append(t, c) : t \in S, c \in A }

\* sources and destinations of "map-url" statements
MapSources == { <<"a">>, <<"a","*">>, <<"b","b">>, <<"B","*">> }
MapDests == { <<"a">>, <<"b","*">>, <<"c">> }

\* destinations of "device-home" statements
HomeDests == { <<"b">>, <<"b","*">> }

DEVICE_HOME == SubSeq(DEVICE_HOME_STAR, 1, Len(DEVICE_HOME_STAR) - 1)

\* the URLs that are rewritten
MapUrls ==
    Strings({"A", "b"}, MaxUrlLen)
    \cup { DEVICE_HOME, Append([i \in 1..Len(DEVICE_HOME) |->
                                   tolower(DEVICE_HOME[i])], "A") }

\* wsp_http_map_url_config(s), s being "src dst"
wsp_http_map_url_config(src, dst) ==
    /\ run_status = "limbo"
    /\ Len(wsp_http_map) < MaxRules
    /\ wsp_http_map' = wsp_http_map_url_do_config(wsp_http_map, src, dst)
    /\ UNCHANGED << run_status, queue, queue_producers, fetches, have_ppg,
                    wsp_smart_errors, device_home, referer_url, reply_log,
                    mapped, push_asked, dlr_mutex, dlr_thread, dlr_failed, caller_pending, caller_results, caller_producers,
                    main_pc, replies_pc, shutdown_pc, assert_failed, events,
                    destroyed, consumed, submitted, wsp_out, ppg_out >>

\* wsp_http_map_url_config_device_home(to) at configuration read
config_device_home(to) ==
    /\ run_status = "limbo"
    /\ Len(wsp_http_map) < MaxRules
    /\ wsp_http_map' = wsp_http_map_url_config_device_home(wsp_http_map, to)
    /\ UNCHANGED << run_status, queue, queue_producers, fetches, have_ppg,
                    wsp_smart_errors, device_home, referer_url, reply_log,
                    mapped, push_asked, dlr_mutex, dlr_thread, dlr_failed, caller_pending, caller_results, caller_producers,
                    main_pc, replies_pc, shutdown_pc, assert_failed, events,
                    destroyed, consumed, submitted, wsp_out, ppg_out >>

\* wsp_http_map_url(&url) as start_fetch calls it, and once more on its
\* result
map_url(u) ==
    /\ run_status = "running"
    /\ assert_failed = "none"
    /\ mapped' = [ old |-> u,
                   new |-> wsp_http_map_url(wsp_http_map, u),
                   again |-> wsp_http_map_url(wsp_http_map,
                                 wsp_http_map_url(wsp_http_map, u)),
                   rule |-> wsp_http_map_find(wsp_http_map, u) ]
    /\ UNCHANGED << run_status, queue, queue_producers, fetches, have_ppg,
                    wsp_smart_errors, device_home, wsp_http_map, referer_url,
                    reply_log, push_asked, dlr_mutex, dlr_thread, dlr_failed, caller_pending, caller_results,
                    caller_producers, main_pc, replies_pc, shutdown_pc,
                    assert_failed, events, destroyed, consumed, submitted,
                    wsp_out, ppg_out >>

NextMap ==
    \/ \E src \in MapSources, dst \in MapDests :
           wsp_http_map_url_config(src, dst)
    \/ \E to \in HomeDests : config_device_home(to)
    \/ run_status = "limbo" /\ wap_appl_init("NULL")
    \/ \E u \in MapUrls : map_url(u)

SpecMap == Init /\ [][NextMap]_vars

\* the WAP application layer stands still
WapApplStill ==
    UNCHANGED << run_status, queue, queue_producers, fetches, have_ppg,
                 wsp_smart_errors, device_home, wsp_http_map, referer_url,
                 reply_log, mapped, push_asked,
                 caller_pending, caller_results, caller_producers,
                 main_pc, replies_pc, shutdown_pc, assert_failed,
                 events, destroyed, consumed, submitted, wsp_out, ppg_out >>

\* the threads of the gateway use the delivery-report store
NextDlr ==
    \/ \E t \in DlrThreads : dlr_sdb_add(t) /\ WapApplStill
    \/ \E t \in DlrThreads : dlr_sdb_get(t) /\ WapApplStill
    \/ \E t \in DlrThreads : dlr_sdb_update(t) /\ WapApplStill
    \/ \E t \in DlrThreads : dlr_sdb_remove(t) /\ WapApplStill
    \/ \E t \in DlrThreads : dlr_sdb_messages(t) /\ WapApplStill
    \/ \E t \in DlrThreads : dlr_sdb_flush(t) /\ WapApplStill

\* dlr_init_sdb has created dlr_mutex and opened the connection; the WAP
\* application layer is in limbo
InitDlr ==
    /\ run_status = "limbo"
    /\ queue = << >>
    /\ queue_producers = 0
    /\ fetches = 0
    /\ have_ppg = FALSE
    /\ wsp_smart_errors = FALSE
    /\ device_home = NullUrl
    /\ wsp_http_map = << >>
    /\ referer_url = [s \in Sids |-> NullUrl]
    /\ reply_log = << >>
    /\ mapped = NoRewrite
    /\ push_asked = << >>
    /\ dlr_mutex = -1
    /\ dlr_thread = [t \in DlrThreads |-> Idle]
    /\ dlr_failed = FALSE
    /\ caller_pending = {}
    /\ caller_results = << >>
    /\ caller_producers = 0
    /\ main_pc = "none"
    /\ replies_pc = "none"
    /\ shutdown_pc = "idle"
    /\ assert_failed = "none"
    /\ events = << >>
    /\ destroyed = << >>
    /\ consumed = << >>
    /\ submitted = {}
    /\ wsp_out = << >>
    /\ ppg_out = << >>

SpecDlr == InitDlr /\ [][NextDlr]_vars

(***************************************************************************)
(* The map-url claims, stated over the rules as configured.                *)
(***************************************************************************)
Lower(s) == [i \in 1..Len(s) |-> tolower(s[i])]

EndsInStar(s) == Len(s) > 0 /\ s[Len(s)] = "*"

\* a configured string without its trailing `*', if it has one
StripStar(s) == IF EndsInStar(s) THEN SubSeq(s, 1, Len(s) - 1) ELSE s

\* rule m, as configured, matches URL u
RuleMatches(m, u) ==
    IF EndsInStar(m.in)
    THEN /\ Len(u) >= Len(m.in) - 1
         /\ Lower(SubSeq(u, 1, Len(m.in) - 1)) = Lower(StripStar(m.in))
    ELSE Lower(u) = Lower(m.in)

\* the places in the table of the rules that match u
Matching(u) == { k \in 1..Len(wsp_http_map) : RuleMatches(wsp_http_map[k], u) }

\* the first rule that matches u
FirstMatching(u) == CHOOSE k \in Matching(u) : \A j \in Matching(u) : k <= j

\* a URL has been rewritten
Rewritten == mapped # NoRewrite

(***************************************************************************)
(* C14.                                                                    *)
(***************************************************************************)
\* C14: a rewritten URL that matches no rule is unchanged; one that matches
\* is rewritten as by the first matching rule alone, whatever rules follow
C14_FirstMatchOnly ==
    Rewritten =>
        IF Matching(mapped.old) = {}
        THEN mapped.rule = 0 /\ mapped.new = mapped.old
        ELSE /\ mapped.rule = FirstMatching(mapped.old)
             /\ mapped.new =
                  wsp_http_map_url(<< wsp_http_map[FirstMatching(mapped.old)] >>,
                                   mapped.old)

\* C14: a URL matched by two rules with different results was rewritten
C14_TwoRulesMatched ==
    /\ Rewritten
    /\ Cardinality(Matching(mapped.old)) = 2
    /\ wsp_http_map_url(<< wsp_http_map[1] >>, mapped.old)
         # wsp_http_map_url(<< wsp_http_map[2] >>, mapped.old)
    /\ mapped.new = wsp_http_map_url(<< wsp_http_map[1] >>, mapped.old)

(***************************************************************************)
(* C15.                                                                    *)
(***************************************************************************)
\* C15: with both a source and a destination ending in `*', the result is
\* the destination without its `*' followed by the URL's tail after the
\* source's prefix, its case kept; otherwise the result is the destination
\* (without its `*')
C15_PrefixReplacement ==
    (Rewritten /\ mapped.rule > 0) =>
        mapped.new =
            IF EndsInStar(wsp_http_map[mapped.rule].in)
               /\ EndsInStar(wsp_http_map[mapped.rule].out)
            THEN StripStar(wsp_http_map[mapped.rule].out)
                 \o SubSeq(mapped.old, Len(wsp_http_map[mapped.rule].in),
                           Len(mapped.old))
            ELSE StripStar(wsp_http_map[mapped.rule].out)

\* C15: a tail with an upper-case letter was appended to a destination
C15_TailKept ==
    /\ Rewritten /\ mapped.rule > 0
    /\ wsp_http_map[mapped.rule].flags = WSP_HTTP_MAP_INOUTPREFIX
    /\ mapped.new = StripStar(wsp_http_map[mapped.rule].out) \o << "A" >>

(***************************************************************************)
(* C16.                                                                    *)
(***************************************************************************)
\* C16: a rule whose source has no trailing `*' matches the rewritten URL,
\* as wsp_http_map_find compares them, only if the whole URL equals the
\* source, ignoring case
C16_WholeUrlOnly ==
    Rewritten =>
        \A k \in 1..Len(wsp_http_map) :
            (/\ ~EndsInStar(wsp_http_map[k].in)
             /\ strncasecmp(mapped.old, wsp_http_map[k].in,
                            wsp_http_map[k].in_len) = 0)
            => Lower(mapped.old) = Lower(wsp_http_map[k].in)

\* C16: a URL that starts with the source of the only rule and goes on was
\* left alone, and (in another state) a URL equal to the source up to case
\* was rewritten
C16_LongerUrlUnmatched ==
    /\ Rewritten /\ Len(wsp_http_map) = 1
    /\ ~EndsInStar(wsp_http_map[1].in)
    /\ Len(mapped.old) > Len(wsp_http_map[1].in)
    /\ Lower(SubSeq(mapped.old, 1, Len(wsp_http_map[1].in)))
         = Lower(wsp_http_map[1].in)
    /\ mapped.rule = 0 /\ mapped.new = mapped.old

(***************************************************************************)
(* C17.                                                                    *)
(***************************************************************************)
\* rewriting is idempotent on the URLs
Idempotent ==
    \A u \in MapUrls :
        wsp_http_map_url(wsp_http_map, wsp_http_map_url(wsp_http_map, u))
            = wsp_http_map_url(wsp_http_map, u)

\* the destination of rule j (without its `*') is matched by no rule
OutUnmatched(j) ==
    \A k \in 1..Len(wsp_http_map) :
        ~RuleMatches(wsp_http_map[k], StripStar(wsp_http_map[j].out))

\* C17 (as stated): rewriting is idempotent if and only if no rule's
\* destination is matched by any rule's source
C17_IdempotentIff ==
    Idempotent <=> \A j \in 1..Len(wsp_http_map) : OutUnmatched(j)

\* C17 (one direction of the above): if no rule's destination is matched
\* by any rule's source, rewriting is idempotent
C17_UnmatchedSuffices ==
    (\A j \in 1..Len(wsp_http_map) : OutUnmatched(j)) => Idempotent

\* C17 (the other direction): if rewriting is idempotent, no rule's
\* destination is matched by any rule's source
C17_UnmatchedNeeded ==
    Idempotent => \A j \in 1..Len(wsp_http_map) : OutUnmatched(j)

\* C17: what holds: rewriting a URL twice gives what rewriting it once
\* gives when no rule matches it, or when the rule that rewrote it appended
\* no tail and its destination is matched by no rule
C17_IdempotentWithoutTail ==
    Rewritten =>
        ((\/ mapped.rule = 0
          \/ /\ mapped.rule > 0
             /\ wsp_http_map[mapped.rule].flags # WSP_HTTP_MAP_INOUTPREFIX
             /\ OutUnmatched(mapped.rule))
         => mapped.again = mapped.new)

\* C17: a URL was rewritten to a destination that no rule matches
C17_RewrittenOnce ==
    /\ Rewritten /\ mapped.rule > 0
    /\ wsp_http_map[mapped.rule].flags # WSP_HTTP_MAP_INOUTPREFIX
    /\ OutUnmatched(mapped.rule)
    /\ mapped.new # mapped.old
    /\ mapped.again = mapped.new

(***************************************************************************)
(* C18.                                                                    *)
(***************************************************************************)
\* rule m is one that a "device-home" statement added
IsHomeRule(m) == m.in = DEVICE_HOME_STAR

HasStar(s) == \E i \in 1..Len(s) : s[i] = "*"

\* C18 (as stated): a rule for DEVICE:home* has OUT_PREFIX set and, the
\* configured destinations ending in at most one `*', a destination
\* pattern without `*'; a URL it rewrites gets no `*'
C18_HomeWithoutStar ==
    /\ \A k \in 1..Len(wsp_http_map) :
          IsHomeRule(wsp_http_map[k]) =>
              /\ FlagsAnd(wsp_http_map[k].flags, WSP_HTTP_MAP_OUTPREFIX) # 0
              /\ ~HasStar(SubSeq(wsp_http_map[k].out, 1,
                                 wsp_http_map[k].out_len))
    /\ (Rewritten /\ mapped.rule > 0) =>
          (IsHomeRule(wsp_http_map[mapped.rule]) => ~HasStar(mapped.new))

(***************************************************************************)
(* C11.                                                                    *)
(***************************************************************************)
\* the client SDU size that return_reply was called with for log entry g
LogSdu(g) == FetchArgs(events[Origin(g.at)]).client_SDU_size

\* log entry g is of a reply that was longer than a positive SDU size
LogTooLarge(g) == LogSdu(g) > 0 /\ g.before.len > LogSdu(g)

\* C11: a reply whose body was longer than a positive SDU size is sent
\* with an empty body, with status 502 if its status was 2xx and with its
\* status unchanged otherwise
C11_TooLargeReply ==
    \A k \in 1..Len(reply_log) :
        LogTooLarge(reply_log[k]) =>
            /\ octstr_len(wsp_out[reply_log[k].at].response_body) = 0
            /\ wsp_out[reply_log[k].at].status =
                 IF reply_log[k].before.status \in 200..299
                 THEN 502
                 ELSE reply_log[k].before.status

\* C11: a 404 page and a 202 page, each too large, have been answered
C11_ErrorPageTooLarge ==
    \E k \in 1..Len(reply_log) :
        /\ LogTooLarge(reply_log[k])
        /\ reply_log[k].before.status \in {202, 404}
        /\ octstr_len(wsp_out[reply_log[k].at].response_body) = 0

(***************************************************************************)
(* C12.                                                                    *)
(***************************************************************************)
\* the places in wsp_out of the S_Unit_MethodResult_Req events of invoke id
UnitResultsFor(id) ==
    { j \in 1..Len(wsp_out) :
        /\ wsp_out[j].type = "S_Unit_MethodResult_Req"
        /\ wsp_out[j].transaction_id = events[id].transaction_id }

\* a connectionless invoke with a method other than GET, POST and HEAD
IsUnsupportedUnit(id) ==
    /\ events[id].type = "S_Unit_MethodInvoke_Ind"
    /\ events[id].method \notin {"GET", "POST", "HEAD"}

\* C12: a consumed S_Unit_MethodInvoke_Ind with a method other than GET,
\* POST and HEAD has exactly one S_Unit_MethodResult_Req, with status 501,
\* an empty body and the transaction_id and addr_tuple of the invoke, and
\* no HTTP request was started for it
C12_UnitNotImplemented ==
    \A id \in ConsumedIds :
        IsUnsupportedUnit(id) =>
            /\ id \notin submitted
            /\ Cardinality(UnitResultsFor(id)) = 1
            /\ \A j \in UnitResultsFor(id) :
                 /\ wsp_out[j].status = 501
                 /\ octstr_len(wsp_out[j].response_body) = 0
                 /\ wsp_out[j].addr_tuple = events[id].addr_tuple

\* C12: a connectionless PUT has been answered
C12_UnitPutAnswered ==
    \E id \in ConsumedIds :
        IsUnsupportedUnit(id) /\ UnitResultsFor(id) # {}

(***************************************************************************)
(* C13.                                                                    *)
(***************************************************************************)
\* log entry g is of a failed HTTP request answered without smart errors
LogFailed(g) == g.given < 0 /\ ~wsp_smart_errors

\* C13 (as stated): the reply to a failed HTTP request, without smart
\* errors, has status 502, an empty body and the content type text/plain
C13_BadGatewayTextPlain ==
    \A k \in 1..Len(reply_log) :
        LogFailed(reply_log[k]) =>
            /\ wsp_out[reply_log[k].at].status = 502
            /\ octstr_len(wsp_out[reply_log[k].at].response_body) = 0
            /\ http_header_get_content_type(
                   wsp_out[reply_log[k].at].response_headers) = "text/plain"

\* C13: what holds of such a reply: status 502, an empty body, and
\* text/plain as the content type return_reply ends with
C13_BadGatewayEmpty ==
    \A k \in 1..Len(reply_log) :
        LogFailed(reply_log[k]) =>
            /\ wsp_out[reply_log[k].at].status = 502
            /\ octstr_len(wsp_out[reply_log[k].at].response_body) = 0
            /\ reply_log[k].content_type = "text/plain"

(***************************************************************************)
(* C19.                                                                    *)
(***************************************************************************)
\* header list h (or no list) has no header named n
NoHeaderNamed(h, n) == \A i \in 1..Len(h) : h[i].name # n

\* the places in ppg_out of the Pom_Connect_Ind events
PomConnects == { j \in 1..Len(ppg_out) : ppg_out[j].type = "Pom_Connect_Ind" }

\* entry a of push_asked is of an S_Connect_Ind without Accept-Application
\* header for which the PPG said it has a push session
IsPushConnect(a) ==
    /\ a.have
    /\ events[a.id].type = "S_Connect_Ind"
    /\ NoHeaderNamed(events[a.id].client_headers, "Accept-Application")

ShuttingDown ==
    shutdown_pc \in {"join_main_thread", "join_return_replies_thread"}

\* C20 (as stated): wap_appl_shutdown, once called in a running module,
\* eventually returns (unless the process panics)
C20_ShutdownReturns ==
    ShuttingDown ~> (shutdown_pc = "returned" \/ assert_failed # "none")

\* C20: the order of the steps: the HTTP caller is signalled only when
\* main_thread has ended, and the resources are destroyed only when both
\* threads have ended, so that no thread runs after the destruction
C20_JoinedBeforeDestroyed ==
    /\ shutdown_pc = "join_main_thread" =>
         run_status = "terminating" /\ queue_producers = 0
         /\ caller_producers = 1
    /\ shutdown_pc = "join_return_replies_thread" =>
         main_pc = "done" /\ caller_producers = 0
    /\ shutdown_pc = "returned" =>
         main_pc = "done" /\ replies_pc = "done" /\ queue = << >>

\* C20: wap_appl_shutdown has returned while a request was with the HTTP
\* caller
C20_ReturnedWithWorkLeft ==
    /\ shutdown_pc = "returned"
    /\ caller_pending # {}

\* C20: what holds: wap_appl_shutdown eventually returns unless main_thread
\* is held in check_application_headers
C20_ShutdownReturnsUnlessHeld ==
    ShuttingDown ~> (\/ shutdown_pc = "returned"
                     \/ assert_failed # "none"
                     \/ main_pc = "check_application_headers")

(***************************************************************************)
(* C21.                                                                    *)
(***************************************************************************)
\* C21 (as stated): when main_thread has left its loop the queue has no
\* producer and every dispatched event has been consumed by the loop
C21_LoopDrainsQueue ==
    main_pc = "done" =>
        /\ queue_producers = 0
        /\ \A id \in EventIds : id \in ConsumedIds

\* C21: what holds: main_thread leaves its loop only after
\* wap_appl_shutdown has taken the status from running and removed the
\* producer; the events then left on the queue are destroyed unrouted
C21_LoopExitsAfterShutdown ==
    main_pc = "done" =>
        /\ run_status # "running"
        /\ queue_producers = 0
        /\ shutdown_pc = "returned" =>
             \A id \in EventIds : id \notin ConsumedIds => destroyed[id] = 1

(***************************************************************************)
(* C22.                                                                    *)
(***************************************************************************)
\* a step of return_replies_thread that runs return_reply for a completion
PumpReplies ==
    /\ replies_pc = "receive"
    /\ replies_pc' = "loop"
    /\ caller_results' # caller_results

\* C22 (as stated): return_replies_thread runs return_reply for no
\* completion, and so emits no reply to WSP, once the status is no longer
\* running
C22_NoReplyAfterTerminating ==
    [][run_status # "running" => ~PumpReplies]_vars

\* C22: what holds: once the status is no longer running,
\* return_replies_thread runs return_reply only if it was already waiting
\* in http_receive_result, and ends at its next loop test: the replies_pc
\* of a step that follows such a reply is never "receive" again
C22_OneReplyAtMost ==
    [][(run_status # "running" /\ replies_pc = "loop")
         => replies_pc' # "receive"]_vars

(***************************************************************************)
(* C23.                                                                    *)
(***************************************************************************)
\* the request contexts of event id that are with the HTTP caller
PendingFor(id) == { p \in caller_pending : p.event = id }
CompletedFor(id) ==
    { i \in 1..Len(caller_results) : caller_results[i].p.event = id }

\* the places in wsp_out of the replies to fetch id
RepliesFor(id) == IF IsInvoke(id) THEN ResultsFor(id) ELSE UnitResultsFor(id)

\* the URL of fetch id as the map-url rules rewrite it
RewrittenUrl(id) == wsp_http_map_url(wsp_http_map, events[id].request_uri)

\* fetch id is of a method for HTTP and is not a GET of the health URL
IsForHttp(id) ==
    /\ events[id].method \in {"GET", "POST", "HEAD"}
    /\ ~(events[id].method = "GET" /\ RewrittenUrl(id) = KANNEL_ALIVE)

\* context p is the one start_fetch makes for fetch id
IsContextOf(p, id) ==
    /\ p.event = id
    /\ p.session_id = IF IsInvoke(id) THEN events[id].session_id ELSE -1
    /\ p.url = RewrittenUrl(id)
    /\ (p.x_wap_tod > 0) = RequestCarriesTod(events[id])
    /\ HasHeader(p.request_headers, "Via")
    /\ HasHeader(p.request_headers, "X-WAP-Gateway")
    /\ ~HasHeader(p.request_headers, "X-WAP.TOD")

\* C23: a consumed fetch for HTTP has been submitted once, with its
\* context, and has got no reply while the request is with the caller; any
\* other fetch has not been submitted and has got exactly one reply
C23_OnePathPerFetch ==
    \A id \in ConsumedIds :
        IsFetch(id) =>
            IF IsForHttp(id)
            THEN /\ id \in submitted
                 /\ Cardinality(PendingFor(id)) + Cardinality(CompletedFor(id))
                      + Cardinality(RepliesFor(id)) = 1
                 /\ \A p \in PendingFor(id) : IsContextOf(p, id)
                 /\ \A i \in CompletedFor(id) :
                      IsContextOf(caller_results[i].p, id)
            ELSE /\ id \notin submitted
                 /\ PendingFor(id) = {} /\ CompletedFor(id) = {}
                 /\ Cardinality(RepliesFor(id)) = 1

\* C23: a HEAD request is with the HTTP caller and has no reply
C23_HeadSubmitted ==
    \E id \in ConsumedIds :
        /\ IsFetch(id) /\ events[id].method = "HEAD"
        /\ PendingFor(id) # {}
        /\ RepliesFor(id) = {}

(***************************************************************************)
(* C24.                                                                    *)
(***************************************************************************)
\* a step in which something is emitted to WSP or to the PPG other than a
\* reply of return_replies_thread
LoopEmits ==
    \/ ppg_out' # ppg_out
    \/ wsp_out' # wsp_out /\ ~PumpReplies

\* C24: main_thread consumes the events in the order of their dispatch
\* (the n-th event consumed is the n-th dispatched), and whatever the loop
\* emits to WSP or to the PPG is emitted in the step that consumes and
\* handles an event: what it emits for an event comes before anything it
\* emits for a later one
C24_RoutedInDispatchOrder ==
    [][/\ consumed' # consumed =>
            consumed' = Append(consumed, Len(consumed) + 1)
       /\ LoopEmits => /\ consumed' # consumed
                       /\ Len(wsp_out') + Len(ppg_out')
                            > Len(wsp_out) + Len(ppg_out)
                       /\ SubSeq(wsp_out', 1, Len(wsp_out)) = wsp_out
                       /\ SubSeq(ppg_out', 1, Len(ppg_out)) = ppg_out]_vars

\* C24: two session requests were acknowledged, the first dispatched
\* first
C24_TwoAcknowledged ==
    /\ Len(consumed) = 2
    /\ IsInvoke(1) /\ IsInvoke(2)
    /\ AcksFor(1) # {} /\ AcksFor(2) # {}
    /\ \A i \in AcksFor(1), j \in AcksFor(2) : i < j


(***************************************************************************)
(* C25: return_reply stores the request URL as the session's referer       *)
(* exactly when the HTTP status it was given is >= 0, convert_content      *)
(* returned 1, the request has a session id and the session machine is     *)
(* found; every other reply, and every step that is not a reply, leaves    *)
(* the stored referers as they were.                                       *)
(***************************************************************************)
LastReply == reply_log'[Len(reply_log')]

RefererDue(g) ==
    /\ g.given >= 0
    /\ g.converted = 1
    /\ g.session_id # NoSession
    /\ find_session_machine_by_id(g.session_id) # NullMachine

C25_RefererSetIff ==
    [][IF Len(reply_log') = Len(reply_log) + 1 /\ RefererDue(LastReply)
       THEN referer_url' =
                [referer_url EXCEPT ![LastReply.session_id] = LastReply.url]
       ELSE referer_url' = referer_url]_vars

\* a converted page has been returned to a session and its URL is stored
C25_RefererStored ==
    \E k \in 1..Len(reply_log) :
        /\ RefererDue(reply_log[k])
        /\ reply_log[k].url = PAGE_URL
        /\ referer_url[reply_log[k].session_id] = PAGE_URL

\* replies that must not store a referer: a smart-error deck, a failed
\* conversion, unconverted content, a unit request, a closed session
C25_SmartErrorKeeps ==
    \E k \in 1..Len(reply_log) :
        reply_log[k].given < 0 /\ reply_log[k].converted = 1
C25_FailedConversionKeeps ==
    \E k \in 1..Len(reply_log) : reply_log[k].converted = -1
C25_RawKeeps ==
    \E k \in 1..Len(reply_log) :
        reply_log[k].given >= 0 /\ reply_log[k].converted = 0
C25_UnitKeeps ==
    \E k \in 1..Len(reply_log) :
        /\ reply_log[k].converted = 1 /\ reply_log[k].given >= 0
        /\ reply_log[k].session_id = NoSession
C25_ClosedSessionKeeps ==
    \E k \in 1..Len(reply_log) :
        /\ reply_log[k].converted = 1 /\ reply_log[k].given >= 0
        /\ reply_log[k].session_id \notin Sids \cup {NoSession}


(***************************************************************************)
(* C26: the HTTP request assembled for a session carries Referer: U, U     *)
(* being the URL of the last converted reply returned to that session;     *)
(* with no such reply, with an empty U, or for a unit request it carries   *)
(* no Referer header.                                                      *)
(***************************************************************************)
StoredBy(s) ==
    { k \in 1..Len(reply_log) :
        RefererDue(reply_log[k]) /\ reply_log[k].session_id = s }

LastConverted(s) ==
    IF s = NoSession \/ StoredBy(s) = {} THEN NullUrl
    ELSE reply_log[CHOOSE k \in StoredBy(s) :
                      \A j \in StoredBy(s) : j <= k].url

RefererOf(p) == http_header_find_all(p.request_headers, "Referer")

C26_RefererCarried ==
    [][\A p \in caller_pending' \ caller_pending :
          RefererOf(p) =
              IF LastConverted(p.session_id) # NullUrl
                 /\ Len(LastConverted(p.session_id)) > 0
              THEN << Header("Referer", LastConverted(p.session_id)) >>
              ELSE << >>]_vars

\* the second request of session 1 is with the HTTP caller and carries the
\* URL of the converted page returned for the first
C26_SecondCarriesFirst ==
    /\ StoredBy(1) # {}
    /\ \E p \in caller_pending :
          /\ p.event = 2 /\ p.session_id = 1
          /\ RefererOf(p) = << Header("Referer", PAGE_URL) >>

\* requests without a Referer: after a converted reply for the empty URL,
\* after a converted reply to another session, and a unit request
C26_EmptyNotCarried ==
    /\ LastConverted(1) = << >>
    /\ \E p \in caller_pending :
          p.event = 2 /\ p.session_id = 1 /\ RefererOf(p) = << >>
C26_OtherSessionNotCarried ==
    /\ StoredBy(2) # {}
    /\ \E p \in caller_pending :
          p.event = 2 /\ p.session_id = 1 /\ RefererOf(p) = << >>
C26_UnitNotCarried ==
    /\ StoredBy(1) # {}
    /\ \E p \in caller_pending :
          p.event = 2 /\ p.session_id = NoSession /\ RefererOf(p) = << >>


(***************************************************************************)
(* C27: with smart errors, the reply to a failed HTTP request has status   *)
(* 200 before the SDU test, and unless that test suppresses it, it is sent *)
(* with status 200 and a deck that links back to the referer stored for    *)
(* the session at that time, else to device_home, else to nothing.         *)
(***************************************************************************)
\* the referer stored for the session of log entry k when it was made
RefererBefore(k) ==
    LET s == reply_log[k].session_id
        before == { j \in StoredBy(s) : j < k }
    IN  IF s = NoSession \/ before = {} THEN NullUrl
        ELSE reply_log[CHOOSE j \in before : \A i \in before : i <= j].url

\* where the deck of log entry k leads back to
DeckBack(k) ==
    IF RefererBefore(k) # NullUrl THEN RefererBefore(k) ELSE device_home

\* log entry g is of a failed HTTP request answered with smart errors
LogSmartError(g) == g.given < 0 /\ wsp_smart_errors

C27_SmartErrorDeck ==
    \A k \in 1..Len(reply_log) :
        LogSmartError(reply_log[k]) =>
            /\ reply_log[k].before.status = 200
            /\ ~LogTooLarge(reply_log[k]) =>
                  /\ wsp_out[reply_log[k].at].status = 200
                  /\ wsp_out[reply_log[k].at].response_body.back = DeckBack(k)
                  /\ wsp_out[reply_log[k].at].response_body.data =
                        IF DeckBack(k) = NullUrl THEN "error_requesting"
                        ELSE "error_requesting_back"

\* a deck back to the referer although device_home is set
C27_BackToReferer ==
    /\ device_home = HOME_URL
    /\ \E k \in 1..Len(reply_log) :
          /\ LogSmartError(reply_log[k])
          /\ RefererBefore(k) = PAGE_URL
          /\ wsp_out[reply_log[k].at].status = 200
          /\ wsp_out[reply_log[k].at].response_body.back = PAGE_URL

\* decks back to device_home and to nothing, and a deck that was too large
C27_BackToHome ==
    \E k \in 1..Len(reply_log) :
        /\ LogSmartError(reply_log[k])
        /\ wsp_out[reply_log[k].at].response_body.back = HOME_URL
C27_BackToNothing ==
    \E k \in 1..Len(reply_log) :
        /\ LogSmartError(reply_log[k])
        /\ ~LogTooLarge(reply_log[k])
        /\ wsp_out[reply_log[k].at].response_body.data = "error_requesting"
C27_DeckTooLarge ==
    \E k \in 1..Len(reply_log) :
        /\ LogSmartError(reply_log[k])
        /\ LogTooLarge(reply_log[k])
        /\ wsp_out[reply_log[k].at].status = 502


(***************************************************************************)
(* C28: convert_content returns 1 exactly when the type is that of a       *)
(* converter and its compiler succeeds, and then the body is the compiled  *)
(* one and the type the converter's result_type; -1 exactly when the type  *)
(* is that of a converter whose compiler fails; 0 exactly when it is of no *)
(* converter; with -1 and 0 the body and the type are as they were.        *)
(***************************************************************************)
\* the calls of convert_content in the history
Conversions ==
    { k \in 1..Len(reply_log) : reply_log[k].conversion # << >> }

Registered(type) == \E i \in 1..NUM_CONVERTERS : converters[i].type = type
ConverterOf(type) ==
    converters[CHOOSE i \in 1..NUM_CONVERTERS : converters[i].type = type]

ConvertedAsStated(ret, v) ==
    /\ ret = 1 <=> Registered(v.source.type) /\ v.compiles = "yes"
    /\ ret = -1 <=> Registered(v.source.type) /\ v.compiles = "no"
    /\ ret = 0 <=> ~Registered(v.source.type)
    /\ ret = 1 =>
          /\ v.result.type = ConverterOf(v.source.type).result_type
          /\ v.result.body.form \in {"wmlc", "wmlscriptc"}
    /\ ret # 1 =>
          /\ v.result.body = v.source.body
          /\ v.result.type = v.source.type

C28_ConvertContent ==
    \A k \in Conversions :
        ConvertedAsStated(reply_log[k].converted, reply_log[k].conversion)

\* a WMLScript page has been compiled
C28_Compiled ==
    \E k \in Conversions :
        /\ reply_log[k].converted = 1
        /\ reply_log[k].conversion.source.type = "text/vnd.wap.wmlscript"
        /\ reply_log[k].conversion.result.type
              = "application/vnd.wap.wmlscriptc"

\* a WML page and a WMLScript page that failed to compile, and a page of
\* no converter
C28_WmlFailed ==
    \E k \in Conversions :
        /\ reply_log[k].converted = -1
        /\ reply_log[k].conversion.source.type = "text/vnd.wap.wml"
C28_WmlScriptFailed ==
    \E k \in Conversions :
        /\ reply_log[k].converted = -1
        /\ reply_log[k].conversion.source.type = "text/vnd.wap.wmlscript"
C28_Unregistered ==
    \E k \in Conversions :
        /\ reply_log[k].converted = 0
        /\ reply_log[k].conversion.source.type = "text/html"


(***************************************************************************)
(* C29: a 2xx response of a type that has a converter, whose compilation   *)
(* fails, is returned with the body, the content type and the status it    *)
(* came with, unless the SDU test suppresses it, and the stored referers   *)
(* stay as they were.                                                      *)
(***************************************************************************)
\* log entry g is of a 2xx response whose compilation failed
LogCompileFailed(g) ==
    /\ g.given \in 200..299
    /\ g.conversion # << >>
    /\ Registered(g.conversion.source.type)
    /\ g.conversion.compiles = "no"

\* the reply of log entry g is the response as it came
PassedAsItCame(g) ==
    /\ g.before.status = g.given
    /\ g.before.type = g.conversion.source.type
    /\ g.before.len = octstr_len(g.conversion.source.body)
    /\ ~LogTooLarge(g) =>
          /\ wsp_out[g.at].status = g.given
          /\ wsp_out[g.at].response_body = g.conversion.source.body
          /\ http_header_get_content_type(wsp_out[g.at].response_headers)
                = g.conversion.source.type

LatestReply == reply_log[Len(reply_log)]

C29_FailedCompilationPassed ==
    [][(Len(reply_log') = Len(reply_log) + 1 /\ LogCompileFailed(LastReply))
         => /\ referer_url' = referer_url
            /\ PassedAsItCame(LatestReply)']_vars

\* a WML page of a session came with 200, failed to compile and has been
\* sent as WML with status 200
C29_WmlPassed ==
    \E k \in 1..Len(reply_log) :
        /\ LogCompileFailed(reply_log[k])
        /\ reply_log[k].session_id = 1
        /\ reply_log[k].url = PAGE_URL
        /\ wsp_out[reply_log[k].at].status = 200
        /\ wsp_out[reply_log[k].at].response_body = Page(ShortBodyLen)
        /\ http_header_get_content_type(
               wsp_out[reply_log[k].at].response_headers)
             = "text/vnd.wap.wml"

\* such a page that was too large for the client
C29_WmlTooLarge ==
    \E k \in 1..Len(reply_log) :
        /\ LogCompileFailed(reply_log[k])
        /\ LogTooLarge(reply_log[k])
        /\ wsp_out[reply_log[k].at].status = 502


(***************************************************************************)
(* C30: the reply is made an empty text/plain one exactly when its status  *)
(* after the arms of return_reply is not 2xx and the request headers as    *)
(* start_fetch assembled them have no Accept for its content type; every   *)
(* other reply, a 2xx one whose type is not accepted included, reaches the *)
(* SDU test with the type and the body it had.                             *)
(***************************************************************************)
\* the content type and the body of log entry g after the arms
ArmType(g) ==
    IF g.conversion = << >> THEN "text/plain" ELSE g.conversion.result.type
ArmBody(g) ==
    IF g.conversion = << >> \/ g.conversion.result.body = NullBody
    THEN EmptyBody ELSE g.conversion.result.body

\* the headers start_fetch assembled for the request of log entry g name
\* type t in an Accept header
Accepts(g, t) ==
    http_header_find_all(ActualHeaders(FetchArgs(events[Origin(g.at)])),
                         "Accept")
      # SelectSeq(http_header_find_all(
                      ActualHeaders(FetchArgs(events[Origin(g.at)])),
                      "Accept"),
                  LAMBDA h : h.value # t)

\* log entry g is of a reply with a status other than 2xx and a type that
\* is not accepted
LogRefused(g) ==
    g.before.status \notin 200..299 /\ ~Accepts(g, ArmType(g))

C30_AcceptFilter ==
    \A k \in 1..Len(reply_log) :
        IF LogRefused(reply_log[k])
        THEN /\ reply_log[k].before.type = "text/plain"
             /\ reply_log[k].before.len = 0
             /\ octstr_len(wsp_out[reply_log[k].at].response_body) = 0
             /\ http_header_get_content_type(
                    wsp_out[reply_log[k].at].response_headers) = "text/plain"
        ELSE /\ reply_log[k].before.type = ArmType(reply_log[k])
             /\ reply_log[k].before.len = octstr_len(ArmBody(reply_log[k]))
             /\ ~LogTooLarge(reply_log[k]) =>
                   wsp_out[reply_log[k].at].response_body
                     = ArmBody(reply_log[k])

\* a 404 page of a type the client does not accept has been emptied
C30_ErrorPageEmptied ==
    \E k \in 1..Len(reply_log) :
        /\ reply_log[k].given = 404
        /\ ArmType(reply_log[k]) = "text/html"
        /\ octstr_len(ArmBody(reply_log[k])) > 0
        /\ LogRefused(reply_log[k])
        /\ octstr_len(wsp_out[reply_log[k].at].response_body) = 0
        /\ reply_log[k].content_type = "text/plain"

\* replies the filter leaves alone: a 2xx page of a type that is not
\* accepted, a 404 page of an accepted type, and a 404 WML page accepted
\* through the Accept header that start_fetch added
C30_SuccessKept ==
    \E k \in 1..Len(reply_log) :
        /\ reply_log[k].before.status \in 200..299
        /\ ~Accepts(reply_log[k], ArmType(reply_log[k]))
        /\ octstr_len(wsp_out[reply_log[k].at].response_body) > 0
C30_AcceptedErrorKept ==
    \E k \in 1..Len(reply_log) :
        /\ reply_log[k].given = 404
        /\ ArmType(reply_log[k]) = "text/html"
        /\ Accepts(reply_log[k], "text/html")
        /\ octstr_len(wsp_out[reply_log[k].at].response_body) > 0
C30_AugmentedAcceptKept ==
    \E k \in 1..Len(reply_log) :
        /\ reply_log[k].given = 404
        /\ ArmType(reply_log[k]) = "text/vnd.wap.wml"
        /\ Accepts(reply_log[k], "text/vnd.wap.wml")
        /\ octstr_len(wsp_out[reply_log[k].at].response_body) > 0


(***************************************************************************)
(* C31: an S_Connect_Ind or S_Resume_Ind that the loop has consumed has    *)
(* exactly one outgoing event: the indication to the PPG iff a PPG is      *)
(* configured and it said it has a push session, else the response to WSP  *)
(* with the session id of the event (and no capabilities, no server        *)
(* headers).                                                               *)
(***************************************************************************)
IsSessionStart(id) == events[id].type \in {"S_Connect_Ind", "S_Resume_Ind"}

\* the places in ppg_out and wsp_out of the events made for event id
IndicationsFor(id) ==
    { j \in 1..Len(ppg_out) :
        /\ ppg_out[j].type = IF events[id].type = "S_Connect_Ind"
                             THEN "Pom_Connect_Ind" ELSE "Pom_Resume_Ind"
        /\ ppg_out[j].session_id = events[id].session_id }
ResponsesFor(id) ==
    { j \in 1..Len(wsp_out) :
        /\ wsp_out[j].type = IF events[id].type = "S_Connect_Ind"
                             THEN "S_Connect_Res" ELSE "S_Resume_Res"
        /\ wsp_out[j].session_id = events[id].session_id }

\* the PPG was asked about event id and said it has a push session
PushSessionFor(id) ==
    \E k \in 1..Len(push_asked) :
        push_asked[k].id = id /\ push_asked[k].have

OneOutgoing(id) ==
    /\ Cardinality(IndicationsFor(id)) + Cardinality(ResponsesFor(id)) = 1
    /\ IndicationsFor(id) # {} <=> (have_ppg /\ PushSessionFor(id))
    /\ \A j \in ResponsesFor(id) :
          /\ wsp_out[j].server_headers = NullHeaders
          /\ events[id].type = "S_Connect_Ind" =>
                wsp_out[j].negotiated_capabilities = << >>

\* C31 (as stated)
C31_OneOutgoingEvent ==
    \A id \in ConsumedIds : IsSessionStart(id) => OneOutgoing(id)

\* C31: what holds: exactly one outgoing event unless the loop is held in
\* check_application_headers
C31_OneOutgoingUnlessHeld ==
    \A id \in ConsumedIds :
        (IsSessionStart(id) /\ main_pc # "check_application_headers")
            => OneOutgoing(id)

\* both destinations have been taken, for a connect and for a resume
C31_ConnectIndicated ==
    \E id \in ConsumedIds :
        events[id].type = "S_Connect_Ind" /\ IndicationsFor(id) # {}
C31_ConnectAnswered ==
    \E id \in ConsumedIds :
        events[id].type = "S_Connect_Ind" /\ ResponsesFor(id) # {}
C31_ResumeIndicated ==
    \E id \in ConsumedIds :
        events[id].type = "S_Resume_Ind" /\ IndicationsFor(id) # {}
C31_ResumeAnswered ==
    \E id \in ConsumedIds :
        events[id].type = "S_Resume_Ind" /\ ResponsesFor(id) # {}


(***************************************************************************)
(* C32: without a PPG configured (wap_appl_init with a NULL cfg) no step   *)
(* of the event loop asks the PPG about a push session.                    *)
(***************************************************************************)
\* a step in which the PPG is asked about a push session
AsksPpg == push_asked' # push_asked

\* C32 (as stated)
C32_NoConsultWithoutPpg == [][AsksPpg => have_ppg]_vars

\* C32: what holds: without a PPG only S_Suspend_Ind makes the loop ask
C32_OnlySuspendConsults ==
    [][(AsksPpg /\ ~have_ppg)
         => events[Head(queue)].type = "S_Suspend_Ind"]_vars

\* without a PPG, a connect, a disconnect and a resume have been routed
\* and the PPG was not asked
C32_RoutedUnasked ==
    /\ ~have_ppg
    /\ push_asked = << >>
    /\ \E id \in ConsumedIds :
          events[id].type \in {"S_Connect_Ind", "S_Disconnect_Ind",
                               "S_Resume_Ind"}


(***************************************************************************)
(* C33: whatever the client headers of an S_Connect_Ind on the PPG path,   *)
(* Accept-Application headers included, the decoding of the headers comes  *)
(* to an end: a Pom_Connect_Ind is dispatched and the loop is back at its  *)
(* test.                                                                   *)
(***************************************************************************)
\* event id is an S_Connect_Ind consumed on the PPG path
OnPpgPath(id) ==
    /\ id \in ConsumedIds
    /\ events[id].type = "S_Connect_Ind"
    /\ PushSessionFor(id)

\* C33 (as stated)
C33_DecodingTerminates ==
    (\E id \in EventIds : OnPpgPath(id))
      ~> /\ \A id \in EventIds : OnPpgPath(id) => IndicationsFor(id) # {}
         /\ main_pc \in {"loop", "consume", "done"}

\* C33: what holds: the decoding has come to an end for every client
\* header list without an Accept-Application header
C33_DecodedWithoutApplication ==
    \A id \in EventIds :
        (OnPpgPath(id)
         /\ NoHeaderNamed(events[id].client_headers, "Accept-Application"))
            => (IndicationsFor(id) # {} /\ main_pc # "check_application_headers")


(***************************************************************************)
(* C34: the bearer_indication of a Pom_Connect_Ind or Pom_Resume_Ind is    *)
(* the one-entry list with the registered bearer name exactly when the     *)
(* client headers have exactly one Bearer-Indication header, of a non-zero *)
(* registered value, and NULL otherwise; the headers passed on have no     *)
(* Bearer-Indication header; and the indication is dispatched in each of   *)
(* these cases.                                                            *)
(***************************************************************************)
\* the Bearer-Indication headers of the client of event id
BearersOf(id) ==
    IF events[id].client_headers = NullHeaders THEN << >>
    ELSE http_header_find_all(events[id].client_headers, "Bearer-Indication")

\* the client of event id names one bearer, non-zero and registered
OneGoodBearer(id) ==
    /\ Len(BearersOf(id)) = 1
    /\ BearersOf(id)[1].value # "0"
    /\ BearersOf(id)[1].value \in DOMAIN BearerNames

\* a lone bearer of event id that is zero or not registered
OneBadBearer(id) == Len(BearersOf(id)) = 1 /\ ~OneGoodBearer(id)

\* the headers an indication passes on
PassedOn(ev) ==
    IF ev.type = "Pom_Connect_Ind" THEN ev.push_headers ELSE ev.client_headers

BearerAsStated(id, ev) ==
    /\ ev.bearer_indication =
          IF OneGoodBearer(id)
          THEN << Header("Bearer-Indication",
                         BearerNames[BearersOf(id)[1].value]) >>
          ELSE NullHeaders
    /\ NoHeaderNamed(PassedOn(ev), "Bearer-Indication")

\* event id is on the PPG path and its headers can be decoded
Indicated(id) ==
    /\ id \in ConsumedIds
    /\ IsSessionStart(id)
    /\ PushSessionFor(id)
    /\ main_pc # "check_application_headers"

\* C34 (as stated)
C34_BearerIndication ==
    \A id \in EventIds :
        Indicated(id) =>
            /\ IndicationsFor(id) # {}
            /\ \A j \in IndicationsFor(id) : BearerAsStated(id, ppg_out[j])

\* C34: what holds: the same, a lone zero or unregistered bearer apart
C34_BearerUnlessBad ==
    \A id \in EventIds :
        Indicated(id) =>
            /\ IndicationsFor(id) # {}
            /\ \A j \in IndicationsFor(id) :
                  /\ ~OneBadBearer(id) => BearerAsStated(id, ppg_out[j])
                  /\ NoHeaderNamed(PassedOn(ppg_out[j]), "Bearer-Indication")

\* indications with a bearer name, and without one for several bearers
C34_BearerNamed ==
    \E id \in EventIds :
        /\ Indicated(id) /\ OneGoodBearer(id)
        /\ \E j \in IndicationsFor(id) :
              ppg_out[j].bearer_indication
                = << Header("Bearer-Indication", "IPv6") >>
C34_SeveralBearers ==
    \E id \in EventIds :
        /\ Indicated(id) /\ Len(BearersOf(id)) = 2
        /\ events[id].type = "S_Resume_Ind"
        /\ \E j \in IndicationsFor(id) :
              ppg_out[j].bearer_indication = NullHeaders


(***************************************************************************)
(* C35: the bearer list that indicate_push_connection and                  *)
(* indicate_push_resume create is destroyed at most once and is not read   *)
(* once it is destroyed, whatever the Bearer-Indication headers are.       *)
(***************************************************************************)
\* what decode_bearer_indication made of the headers of event id
BearerDecoded(id) ==
    decode_bearer_indication(
        IF events[id].type = "S_Connect_Ind"
        THEN check_application_headers(events[id].client_headers).headers
        ELSE events[id].client_headers)

\* decode_bearer_indication destroyed the caller's list (line 1245); the
\* caller reads its length next (1293, 1382), and destroys it when it
\* finds the length 0, which is when the field of the event is NULL
DestroyedInside(id) == BearerDecoded(id).freed
ReadAfterDestroy(id) == DestroyedInside(id)
DestroyedByCaller(ev) == ev.bearer_indication = NullHeaders

BearerListSound(id) ==
    /\ ~ReadAfterDestroy(id)
    /\ \A j \in IndicationsFor(id) :
          ~(DestroyedInside(id) /\ DestroyedByCaller(ppg_out[j]))

\* C35 (as stated)
C35_BearerListLifetime ==
    \A id \in EventIds : Indicated(id) => BearerListSound(id)

\* C35: what holds: the same, a lone zero or unregistered bearer apart
C35_LifetimeUnlessBad ==
    \A id \in EventIds :
        (Indicated(id) /\ ~OneBadBearer(id)) => BearerListSound(id)

\* the list of a lone bad bearer has been destroyed twice
C35_DestroyedTwice ==
    \E id \in EventIds :
        /\ Indicated(id) /\ OneBadBearer(id)
        /\ \E j \in IndicationsFor(id) :
              DestroyedInside(id) /\ DestroyedByCaller(ppg_out[j])


(***************************************************************************)
(* C36: the accesses of the two threads to the stored referer of one       *)
(* session are serialized: in no state is the next step of main_thread a   *)
(* start_fetch that reads or writes the referer of a session while the     *)
(* next step of return_replies_thread is a return_reply that writes or     *)
(* reads it. (No lock is taken around these accesses in wap-appl.c, so two *)
(* such steps, both about to be taken, are not ordered by anything.)       *)
(***************************************************************************)
\* main_thread is about to call start_fetch for a request of session s:
\* start_fetch reads the referer of the session (lines 795-796)
MainReadsReferer(s) ==
    /\ main_pc = "consume"
    /\ queue # << >>
    /\ events[Head(queue)].type = "S_MethodInvoke_Ind"
    /\ events[Head(queue)].session_id = s

\* ... and the request is for the health URL, whose reply return_reply
\* makes inside start_fetch (806-816), storing the referer (608-617)
MainWritesReferer(s) ==
    /\ MainReadsReferer(s)
    /\ FetchPath(events[Head(queue)].method,
                 RewrittenUrl(Head(queue))) = "health"
    /\ \E env \in NarrowEnvs :
          ReplyArm(HTTP_OK, HEALTH_DECK,
                   http_header_add(<< >>, "Content-Type", "text/vnd.wap.wml"),
                   s, RewrittenUrl(Head(queue)), env).set_referer

\* return_replies_thread is about to call return_reply for a completion of
\* session s, and return_reply stores the referer (608-617)
PumpWritesReferer(s) ==
    /\ replies_pc = "receive"
    /\ caller_results # << >>
    /\ Head(caller_results).p.session_id = s
    /\ \E env \in NarrowEnvs :
          ReplyArm(Head(caller_results).status, Head(caller_results).body,
                   Head(caller_results).headers, s,
                   Head(caller_results).p.url, env).set_referer

\* ... or reads it for the deck of a smart error (547)
PumpReadsReferer(s) ==
    /\ replies_pc = "receive"
    /\ caller_results # << >>
    /\ Head(caller_results).p.session_id = s
    /\ Head(caller_results).status < 0
    /\ wsp_smart_errors

RefererRace(s) ==
    \/ MainReadsReferer(s) /\ PumpWritesReferer(s)
    \/ MainWritesReferer(s) /\ PumpReadsReferer(s)

\* C36 (as stated)
C36_RefererSerialized == \A s \in Sids : ~RefererRace(s)

\* the race of the claim: both threads are about to store the referer of
\* session 1, one for the health URL and one for a fetched page
C36_BothStore == MainWritesReferer(1) /\ PumpWritesReferer(1)


(***************************************************************************)
(* C37: in the SDB delivery-report store every query runs while dlr_mutex  *)
(* is held, every operation releases dlr_mutex exactly once for each time  *)
(* it took it, whatever the state the query returned, and dlr_mutex is     *)
(* never unlocked by a thread that does not hold it.                       *)
(***************************************************************************)
\* thread t is inside sdb_query only as the owner of dlr_mutex
QueryHeld(t) == dlr_thread[t].pc = "sdb_query" => dlr_mutex = t

\* an operation about to return has locked once and unlocked once
ReleasedOnce(t) ==
    dlr_thread[t].pc = "return" =>
        /\ dlr_thread[t].locks = 1
        /\ dlr_thread[t].unlocks = dlr_thread[t].locks

\* this step is a call of mutex_unlock by thread t
UnlocksMutex(t) == dlr_thread[t].unlocks' > dlr_thread[t].unlocks

\* what a step of the store must keep
MutexDiscipline ==
    \A t \in DlrThreads :
        /\ QueryHeld(t)'
        /\ ReleasedOnce(t)'
        /\ UnlocksMutex(t) => dlr_mutex = t

\* C37: queries run under dlr_mutex, every operation unlocks once for each
\* lock on every outcome, and nobody unlocks a mutex it does not hold
C37_MutexDiscipline == [][MutexDiscipline]_vars

\* C37, as far as it holds: the same, as long as no query of
\* dlr_sdb_messages has failed
C37_DisciplineUnlessMessagesFailed ==
    [][~dlr_failed' => MutexDiscipline]_vars

\* a failed query of another operation has been answered with one unlock
\* while a second thread waits for the mutex
C37_FailedQueryReleased ==
    \E t, u \in DlrThreads :
        /\ dlr_thread[t].pc = "return"
        /\ dlr_thread[t].op # "dlr_sdb_messages"
        /\ dlr_thread[t].state = -1
        /\ dlr_thread[t].unlocks = 1
        /\ dlr_thread[u].pc = "mutex_lock"
        /\ dlr_mutex = -1

\* dlr_sdb_messages returns -1 having unlocked twice, and a second thread
\* is inside its query without the mutex
C37_UnlockedTwice ==
    \E t, u \in DlrThreads :
        /\ dlr_thread[t].pc = "return"
        /\ dlr_thread[t].op = "dlr_sdb_messages"
        /\ dlr_thread[t].unlocks = 2
        /\ dlr_thread[u].pc = "sdb_query"
        /\ dlr_mutex # u

=============================================================================
